---------------------------- MODULE Spec2Model ----------------------------
(***************************************************************************)
(* A model of the protocol codec stack of PyttiAPRS.py: the AX.25 address  *)
(* and UI-frame codec, the KISS framer/unframer, the APRS payload builder, *)
(* the Mic-E decoder and the reader loop of TNCConnection.                 *)
(*                                                                         *)
(* Bytes are integers 0..255, byte strings are sequences of bytes, text    *)
(* strings are sequences of character codes.  A Python function that may   *)
(* raise is modelled by an operator returning a record whose field st is   *)
(* "ok", "none" (the function returned None) or "raise".                   *)
(***************************************************************************)
EXTENDS Integers, Sequences, FiniteSets, TLC

VARIABLES
    \* harness of the pure KISS functions
    ax25_frame,     \* the argument of kiss_encode
    kiss_data,      \* kiss_encode(ax25_frame), the bytes on the wire
    split_at,       \* where the wire bytes are cut into two recv chunks
    whole,          \* kiss_unframe(kiss_data)
    first,          \* kiss_unframe(kiss_data[:split_at])
    second,         \* kiss_unframe(first.remainder + kiss_data[split_at:])
    pair_second,    \* the frame sent after ax25_frame
    pair_gap,       \* the number of extra FEND bytes between the two
    pair_out,       \* kiss_unframe of the two encoded frames and the gap
    kpc,
    \* harness of the address codec
    call_in,        \* the arguments of encode_ax25_address
    ssid_in,
    last_in,
    addr_in,        \* the address bytes handed to decode_ax25_address
    addr_decoded,   \* what decode_ax25_address did with them
    apc,
    \* harness of the frame codec
    in_dest,        \* the arguments of encode_ax25_frame
    in_source,
    in_path,
    in_info,
    raw_frame,      \* the bytes handed to decode_ax25_frame
    decoded,        \* what decode_ax25_frame did with them
    fpc,
    \* harness of the Mic-E decoder
    mic_dest,       \* the arguments of decode_mic_e
    mic_info,
    mic_result,     \* what decode_mic_e did with them
    mic_locals,     \* its local variables when it called build_aprs_position
    mpc,
    \* TNCConnection and its socket
    tnc_sent,       \* the AX.25 frames the TNC has sent, in order, before KISS
    sock_rx,        \* bytes the TNC has sent that recv has not yet returned
    delivered,      \* every byte recv has returned so far, in order
    buffer,         \* self.buffer
    msg_queue,      \* self.msg_queue
    running,        \* self.running
    \* harness of kiss_unframe on one delimited frame
    seg_type,       \* the type byte after the opening FEND, or nothing
    seg_pre,        \* plain bytes before the escape sequence
    seg_esc,        \* FESC and the byte that follows it, or nothing
    seg_post,       \* plain bytes before the closing FEND
    seg_stray,      \* bytes before the opening FEND
    seg_closed,     \* whether the closing FEND is sent
    seg_tail,       \* bytes after the closing FEND
    raw_stream,     \* the argument of kiss_unframe
    seg_out,        \* kiss_unframe(raw_stream)
    upc,
    \* harness of the APRS payload builders
    msg_to,         \* the arguments of build_aprs_message
    msg_body,
    msg_num,
    msg_bytes,      \* what build_aprs_message did with them
    pos_lat,        \* the arguments of build_aprs_position
    pos_lon,
    pos_table,
    pos_code,
    pos_note,
    pos_bytes,      \* what build_aprs_position did with them
    bpc,
    \* StationConfig and APRSTUI
    msg_id_counter, \* cfg.msg_id_counter
    mid_out,        \* what the latest call of next_msg_id returned
    mid_prev,       \* what the call before it returned
    ack_enabled,    \* self.ack_enabled
    last_message,   \* self.last_message
    selected_heard, \* self.selected_heard
    messages,       \* self.messages
    logged,         \* the calls of _log_message
    heard,          \* self.heard
    taken,          \* the packets _process_incoming got from the queue
    sent_count,     \* the number of calls of tnc.send_frame
    sent_frame,     \* the frame of the latest call of tnc.send_frame
    last_sent,      \* what the latest new message was built from
    op_pre,         \* counter, last message and sends before the latest key
    last_op,        \* the latest key handled by run()
    ops_done,       \* the number of keys handled
    tpc,
    \* TNCConnection.close against the reader thread and send_frame
    sock_attr,      \* self.sock: "set" or "none"
    sock_os,        \* the socket object: "open", "shutdown" or "closed"
    rpc,            \* where the reader thread stands
    reader_exit,    \* what ended the loop of the reader thread
    cpc,            \* where close() stands
    spc,            \* where send_frame stands
    send_calls,     \* the number of calls of send_frame
    send_late,      \* whether the current call began after close() returned
    tx_count,       \* the number of sendall calls that transmitted
    late_tx,        \* whether a call begun after close() returned transmitted
    escaped         \* the threads an exception has left

kissVars ==
    <<ax25_frame, kiss_data, split_at, whole, first, second, pair_second,
      pair_gap, pair_out, kpc>>

addrVars == <<call_in, ssid_in, last_in, addr_in, addr_decoded, apc>>

frameVars == <<in_dest, in_source, in_path, in_info, raw_frame, decoded, fpc>>

micVars == <<mic_dest, mic_info, mic_result, mic_locals, mpc>>

readerVars == <<tnc_sent, sock_rx, delivered, buffer, msg_queue, running>>

unframeVars ==
    <<seg_type, seg_pre, seg_esc, seg_post, seg_stray, seg_closed, seg_tail,
      raw_stream, seg_out, upc>>

aprsVars ==
    <<msg_to, msg_body, msg_num, msg_bytes,
      pos_lat, pos_lon, pos_table, pos_code, pos_note, pos_bytes, bpc>>

tuiVars ==
    <<msg_id_counter, mid_out, mid_prev, ack_enabled, last_message,
      selected_heard, messages, logged, heard, taken, sent_count, sent_frame, last_sent,
      op_pre, last_op, ops_done, tpc>>

closeVars ==
    <<sock_attr, sock_os, rpc, reader_exit, cpc, spc, send_calls, send_late,
      tx_count, late_tx, escaped>>

vars ==
    <<kissVars, addrVars, frameVars, micVars, readerVars, unframeVars, aprsVars,
      tuiVars, closeVars>>

\* what the actions of one harness leave alone
notKiss ==
    <<addrVars, frameVars, micVars, readerVars, unframeVars, aprsVars,
      tuiVars, closeVars>>

notAddr ==
    <<kissVars, frameVars, micVars, readerVars, unframeVars, aprsVars,
      tuiVars, closeVars>>

notFrame ==
    <<kissVars, addrVars, micVars, readerVars, unframeVars, aprsVars,
      tuiVars, closeVars>>

notMic ==
    <<kissVars, addrVars, frameVars, readerVars, unframeVars, aprsVars,
      tuiVars, closeVars>>

notReader ==
    <<kissVars, addrVars, frameVars, micVars, unframeVars, aprsVars,
      tuiVars, closeVars>>

notUnframe ==
    <<kissVars, addrVars, frameVars, micVars, readerVars, aprsVars,
      tuiVars, closeVars>>

notAprs ==
    <<kissVars, addrVars, frameVars, micVars, readerVars, unframeVars,
      tuiVars, closeVars>>

notTui ==
    <<kissVars, addrVars, frameVars, micVars, readerVars, unframeVars,
      aprsVars, closeVars>>

-----------------------------------------------------------------------------
(* Python sequence helpers *)

Min(a, b) == IF a <= b THEN a ELSE b

Max(a, b) == IF a >= b THEN a ELSE b

\* s[a:b] for 0 <= a, 0 <= b: the slice is clipped to the sequence, never an error
Slice(s, a, b) == SubSeq(s, a + 1, Min(b, Len(s)))

\* s[a:]
SliceFrom(s, a) == SubSeq(s, a + 1, Len(s))

RECURSIVE Concat(_)
\* b''.join(parts)
Concat(parts) ==
    IF parts = <<>> THEN <<>> ELSE Head(parts) \o Concat(Tail(parts))

\* all sequences over S of length 0..n
SeqsUpTo(S, n) == UNION {[1..k -> S] : k \in 0..n}

-----------------------------------------------------------------------------
(* Python text helpers; text is ASCII, a sequence of character codes *)

\* str.upper() on one ASCII character
Upper(c) == IF 97 <= c /\ c <= 122 THEN c - 32 ELSE c

UpperStr(s) == [i \in 1..Len(s) |-> Upper(s[i])]

\* str.isspace() on one character of the range 0..255
IsSpace(c) == c \in {9, 10, 11, 12, 13, 28, 29, 30, 31, 32, 133, 160}

IsDigit(c) == 48 <= c /\ c <= 57

RECURSIVE LStrip(_)
LStrip(s) == IF s # <<>> /\ IsSpace(Head(s)) THEN LStrip(Tail(s)) ELSE s

RECURSIVE RStrip(_)
RStrip(s) ==
    IF s # <<>> /\ IsSpace(s[Len(s)]) THEN RStrip(SubSeq(s, 1, Len(s) - 1)) ELSE s

\* str.strip()
Strip(s) == RStrip(LStrip(s))

\* str.ljust(n): pad with spaces on the right, never truncate
Ljust(s, n) == s \o [i \in 1..(n - Len(s)) |-> 32]

RECURSIVE DecDigits(_)
\* the decimal digits of n >= 0
DecDigits(n) ==
    IF n < 10 THEN <<48 + n>> ELSE Append(DecDigits(n \div 10), 48 + (n % 10))

\* str(n), format(n, 'd')
DecStr(n) == IF n < 0 THEN <<45>> \o DecDigits(-n) ELSE DecDigits(n)

\* format(n, '0Wd'): zero padded to at least width characters, sign first
ZeroPad(n, width) ==
    IF n < 0
    THEN <<45>> \o [i \in 1..(width - 1 - Len(DecDigits(-n))) |-> 48] \o DecDigits(-n)
    ELSE [i \in 1..(width - Len(DecDigits(n))) |-> 48] \o DecDigits(n)

RECURSIVE DigitsValue(_, _)
\* the value of a numeral of digits and underscores, left to right
DigitsValue(s, acc) ==
    IF s = <<>> THEN acc
    ELSE IF Head(s) = 95 THEN DigitsValue(Tail(s), acc)
    ELSE DigitsValue(Tail(s), acc * 10 + (Head(s) - 48))

\* digits, with single underscores allowed between two digits
IsNumeral(s) ==
    /\ s # <<>>
    /\ IsDigit(s[1]) /\ IsDigit(s[Len(s)])
    /\ \A i \in 1..Len(s) : IsDigit(s[i]) \/ s[i] = 95
    /\ \A i \in 1..(Len(s) - 1) : ~(s[i] = 95 /\ s[i + 1] = 95)

\* int(s): [ok |-> FALSE] stands for ValueError
PyInt(s) ==
    LET t == Strip(s)
        signed == t # <<>> /\ Head(t) \in {43, 45}
        body == IF signed THEN Tail(t) ELSE t
    IN  IF IsNumeral(body)
        THEN [ok |-> TRUE,
              val |-> IF signed /\ Head(t) = 45 THEN -DigitsValue(body, 0)
                      ELSE DigitsValue(body, 0)]
        ELSE [ok |-> FALSE, val |-> 0]

\* the index (from 1) of the first c in s, 0 when there is none
IndexOf(s, c) ==
    IF \E i \in 1..Len(s) : s[i] = c
    THEN CHOOSE i \in 1..Len(s) : s[i] = c /\ \A j \in 1..(i - 1) : s[j] # c
    ELSE 0

-----------------------------------------------------------------------------
(* AX.25 addresses *)

\* (ord(ch) << 1) & 0xFE
ShiftChar(c) == (c * 2) % 256

\* (b >> 1) & 0x7F
UnshiftByte(b) == (b \div 2) % 128

\* the SSID shifted into place without the & 0x0F
SsidByteNoMask(ssid, last) == (ssid * 2) + 96 + (IF last THEN 1 ELSE 0)

\* the SSID/control byte: ((ssid & 0x0F) << 1) | 0x60, then |= 0x01 if last.
\* ssid & 0x0F is ssid modulo 16 for every Python integer; the shifted
\* value is below 32, so the two ORs add disjoint bits.
SsidByte(ssid, last) == ((ssid % 16) * 2) + 96 + (IF last THEN 1 ELSE 0)

\* the callsign characters stored without the shift
encode_ax25_address_noshift(call, ssid, last) ==
    Ljust(Slice(UpperStr(call), 0, 6), 6) \o <<SsidByte(ssid, last)>>

encode_ax25_address(call, ssid, last) ==
    LET padded == Ljust(Slice(UpperStr(call), 0, 6), 6)
    IN  [i \in 1..6 |-> ShiftChar(padded[i])] \o <<SsidByte(ssid, last)>>

\* ''.join(chr((b >> 1) & 0x7F) for b in addr[:6]).strip()
DecodeCall(addr) ==
    LET six == Slice(addr, 0, 6)
    IN  Strip([i \in 1..Len(six) |-> UnshiftByte(six[i])])

\* the length test left out: addr[6] raises IndexError on a short address
decode_ax25_address_nocheck(addr) ==
    IF Len(addr) < 7 THEN [st |-> "raise", exc |-> "IndexError"]
    ELSE [st |-> "ok", call |-> DecodeCall(addr),
          ssid |-> (addr[7] \div 2) % 16, last |-> addr[7] % 2 = 1]

decode_ax25_address(addr) ==
    IF Len(addr) # 7 THEN [st |-> "raise", exc |-> "ValueError"]
    ELSE [st |-> "ok", call |-> DecodeCall(addr),
          ssid |-> (addr[7] \div 2) % 16, last |-> addr[7] % 2 = 1]

-----------------------------------------------------------------------------
(* AX.25 UI frames *)

\* split_call: callsign and SSID of "CALL-SSID"; SSID 0 when the suffix is
\* missing or int() rejects it
split_call(c) ==
    LET d == IndexOf(c, 45) IN
    IF d = 0 THEN [call |-> c, ssid |-> 0]
    ELSE LET n == PyInt(SliceFrom(c, d)) IN
         [call |-> Slice(c, 0, d - 1), ssid |-> IF n.ok THEN n.val ELSE 0]

EncodeOne(c, last) == encode_ax25_address(split_call(c).call, split_call(c).ssid, last)

\* the path loop flagging every digipeater as the last address
EncodePathAllLast(digis) ==
    [i \in 1..Len(digis) |-> EncodeOne(digis[i], TRUE)]

\* the path loop: every digipeater, the last one flagged
EncodePath(digis) ==
    [i \in 1..Len(digis) |-> EncodeOne(digis[i], i - 1 = Len(digis) - 1)]

\* the source flagged as the last address whether or not a path follows
encode_ax25_frame_srclast(dest, source, digis, info) ==
    LET addresses == <<EncodeOne(dest, FALSE), EncodeOne(source, TRUE)>>
                     \o EncodePath(digis)
    IN  Concat(addresses) \o <<3, 240>> \o info

encode_ax25_frame(dest, source, digis, info) ==
    LET addresses == <<EncodeOne(dest, FALSE), EncodeOne(source, Len(digis) = 0)>>
                     \o EncodePath(digis)
    IN  Concat(addresses) \o <<3, 240>> \o info

\* f"{call}-{ssid}" if ssid else call
CallStr(call, ssid) == IF ssid # 0 THEN call \o <<45>> \o DecStr(ssid) ELSE call

\* one step of the address loop: the tuple (call, ssid, h_bit, e_bit).
\* addr_bytes[6] is an IndexError when the slice is shorter than 7 bytes.
AddrTuple(addr_bytes) ==
    [call |-> DecodeCall(addr_bytes),
     ssid |-> (addr_bytes[7] \div 2) % 16,
     h_bit |-> (addr_bytes[7] \div 128) % 2 = 1,
     e_bit |-> addr_bytes[7] % 2 = 1]

\* the loop test with the bound on idx off by the length of an address
AddrLoopGuardLoose(f, idx, last_found) == ~last_found /\ idx < Len(f)

\* while not last_found and idx + 7 <= len(frame)
AddrLoopGuard(f, idx, last_found) == ~last_found /\ idx + 7 <= Len(f)

RECURSIVE AddrLoop(_, _, _, _)
\* the address loop of decode_ax25_frame: where it stops and what it read
AddrLoop(f, idx, addresses, last_found) ==
    IF ~AddrLoopGuard(f, idx, last_found)
    THEN [st |-> "ok", idx |-> idx, addresses |-> addresses, last_found |-> last_found]
    ELSE LET addr_bytes == Slice(f, idx, idx + 7) IN
         IF Len(addr_bytes) < 7
         THEN [st |-> "raise", idx |-> idx, addresses |-> addresses,
               last_found |-> last_found]
         ELSE AddrLoop(f, idx + 7, Append(addresses, AddrTuple(addr_bytes)),
                       AddrTuple(addr_bytes).e_bit)

\* the digipeaters rendered like destination and source, without the '*'
PathStrsNoStar(addresses) ==
    LET digis == SliceFrom(addresses, 2) IN
    [i \in 1..Len(digis) |-> CallStr(digis[i].call, digis[i].ssid)]

\* the digipeaters, with '*' after those whose H bit is set
PathStrs(addresses) ==
    LET digis == SliceFrom(addresses, 2) IN
    [i \in 1..Len(digis) |->
        CallStr(digis[i].call, digis[i].ssid)
            \o (IF digis[i].h_bit THEN <<42>> ELSE <<>>)]

NoneResult == [st |-> "none"]

IndexError == [st |-> "raise", exc |-> "IndexError"]

\* the info field taken one byte early
TrailerShifted(f, idx, out) ==
    IF idx + 2 > Len(f) THEN NoneResult
    ELSE IF f[idx + 1] # 3 \/ f[idx + 2] # 240 THEN NoneResult
    ELSE [out EXCEPT !.info = SliceFrom(f, idx + 1)]

\* the control and PID test, and the info field that a UI frame leaves
Trailer(f, idx, out) ==
    IF idx + 2 > Len(f) THEN NoneResult
    ELSE IF f[idx + 1] # 3 \/ f[idx + 2] # 240 THEN NoneResult
    ELSE [out EXCEPT !.info = SliceFrom(f, idx + 2)]

\* the address count test asking for one address only
TooFewAddressesOne(addresses) == Len(addresses) < 1

\* if len(addresses) < 2: return None
TooFewAddresses(addresses) == Len(addresses) < 2

\* addresses[1] is an IndexError on a list of fewer than two addresses
decode_ax25_frame(f) ==
    IF Len(f) < 16 THEN NoneResult
    ELSE LET walk == AddrLoop(f, 0, <<>>, FALSE) IN
         IF walk.st = "raise" THEN IndexError
         ELSE IF TooFewAddresses(walk.addresses) THEN NoneResult
         ELSE IF Len(walk.addresses) < 2 THEN IndexError
         ELSE Trailer(f, walk.idx,
                      [st |-> "ok",
                       dest |-> CallStr(walk.addresses[1].call, walk.addresses[1].ssid),
                       source |-> CallStr(walk.addresses[2].call, walk.addresses[2].ssid),
                       path |-> PathStrs(walk.addresses),
                       info |-> <<>>])

-----------------------------------------------------------------------------
(* APRS message payload *)

\* str.encode('ascii')
EncodeAscii(text) ==
    IF \A i \in 1..Len(text) : text[i] < 128
    THEN [st |-> "ok", bytes |-> text]
    ELSE [st |-> "raise", exc |-> "UnicodeEncodeError"]

\* the id printed as it is, without the reduction modulo 1000
MsgIdSuffixNoMod(n) == <<123>> \o ZeroPad(n, 3)

\* '{%03d' % (msg_id % 1000); % is the floor modulo, 0..999 for every integer
MsgIdSuffix(n) == <<123>> \o ZeroPad(n % 1000, 3)

\* the addressee padded to eight characters
build_aprs_message_pad8(addressee, text, msg_id) ==
    EncodeAscii(<<58>> \o Ljust(Slice(UpperStr(addressee), 0, 8), 8) \o <<58>>
                \o Slice(text, 0, 67)
                \o (IF msg_id # <<>> THEN MsgIdSuffix(msg_id[1]) ELSE <<>>))

\* msg_id is <<>> for None and <<n>> for the integer n.  The addressee is
\* ASCII: str.upper() is modelled for ASCII characters only.
build_aprs_message(addressee, text, msg_id) ==
    EncodeAscii(<<58>> \o Ljust(Slice(UpperStr(addressee), 0, 9), 9) \o <<58>>
                \o Slice(text, 0, 67)
                \o (IF msg_id # <<>> THEN MsgIdSuffix(msg_id[1]) ELSE <<>>))

-----------------------------------------------------------------------------
(* APRS position payload *)

\* Coordinates are whole numbers of grid units, Grid units to a hundredth of
\* a minute.  Grid is odd, so no coordinate lies halfway between two
\* hundredths, where the rounding of format() would hang on the last bit of
\* the float.
SubSteps == 1

Grid == 2 * SubSteps + 1

UnitsPerDegree == 60 * 100 * Grid

Abs(x) == IF x < 0 THEN -x ELSE x

\* format(minutes, '05.2f') of a minute count given in grid units
MinutesStr(units) ==
    LET hundredths == (units \div Grid) + (IF 2 * (units % Grid) > Grid THEN 1 ELSE 0)
    IN  ZeroPad(hundredths \div 100, 2) \o <<46>> \o ZeroPad(hundredths % 100, 2)

\* the direction letter of the positive side whatever the sign
CoordStrUnsigned(value, width, pos_dir, neg_dir) ==
    LET deg == Abs(value) \div UnitsPerDegree
    IN  ZeroPad(deg, width) \o MinutesStr(Abs(value) - deg * UnitsPerDegree)
            \o <<pos_dir>>

\* f"{deg:0Wd}{min:05.2f}{dir}" of one coordinate; int() truncates the
\* absolute value, the direction letter tests the signed value against 0
CoordStr(value, width, pos_dir, neg_dir) ==
    LET deg == Abs(value) \div UnitsPerDegree
    IN  ZeroPad(deg, width) \o MinutesStr(Abs(value) - deg * UnitsPerDegree)
            \o <<IF value >= 0 THEN pos_dir ELSE neg_dir>>

build_aprs_position(latitude, longitude, symbol_table, symbol_code, comment) ==
    EncodeAscii(<<33>> \o CoordStr(latitude, 2, 78, 83) \o symbol_table
                \o CoordStr(longitude, 3, 69, 87) \o symbol_code \o comment)

-----------------------------------------------------------------------------
(* Mic-E *)

\* every character outside the table taken for an ambiguous digit
MicECharLoose(ch) ==
    IF 80 <= ch /\ ch <= 89
    THEN [ok |-> TRUE, lat_digit |-> ch - 32, flag_ns |-> 78, flag_offset |-> 100, flag_we |-> 87]
    ELSE IF IsDigit(ch)
    THEN [ok |-> TRUE, lat_digit |-> ch, flag_ns |-> 83, flag_offset |-> 0, flag_we |-> 69]
    ELSE IF 65 <= ch /\ ch <= 74
    THEN [ok |-> TRUE, lat_digit |-> ch - 17, flag_ns |-> 83, flag_offset |-> 0, flag_we |-> 69]
    ELSE IF ch = 90
    THEN [ok |-> TRUE, lat_digit |-> 32, flag_ns |-> 78, flag_offset |-> 100, flag_we |-> 87]
    ELSE [ok |-> TRUE, lat_digit |-> 32, flag_ns |-> 83, flag_offset |-> 0, flag_we |-> 69]

\* one digit more than the character stands for
MicECharShifted(ch) ==
    IF IsDigit(ch)
    THEN [ok |-> TRUE, lat_digit |-> ch, flag_ns |-> 83, flag_offset |-> 0, flag_we |-> 69]
    ELSE IF 65 <= ch /\ ch <= 74
    THEN [ok |-> TRUE, lat_digit |-> ch - 17, flag_ns |-> 83, flag_offset |-> 0, flag_we |-> 69]
    ELSE IF ch \in {75, 76}
    THEN [ok |-> TRUE, lat_digit |-> 32, flag_ns |-> 83, flag_offset |-> 0, flag_we |-> 69]
    ELSE IF 80 <= ch /\ ch <= 88
    THEN [ok |-> TRUE, lat_digit |-> ch - 31, flag_ns |-> 78, flag_offset |-> 100, flag_we |-> 87]
    ELSE IF ch \in {89, 90}
    THEN [ok |-> TRUE, lat_digit |-> 32, flag_ns |-> 78, flag_offset |-> 100, flag_we |-> 87]
    ELSE [ok |-> FALSE, lat_digit |-> 32, flag_ns |-> 83, flag_offset |-> 0, flag_we |-> 69]

\* the decoding of one destination character: latitude digit (32, a space,
\* when ambiguous) and the three flags it would give
MicEChar(ch) ==
    IF IsDigit(ch)
    THEN [ok |-> TRUE, lat_digit |-> ch, flag_ns |-> 83, flag_offset |-> 0, flag_we |-> 69]
    ELSE IF 65 <= ch /\ ch <= 74
    THEN [ok |-> TRUE, lat_digit |-> ch - 17, flag_ns |-> 83, flag_offset |-> 0, flag_we |-> 69]
    ELSE IF ch \in {75, 76}
    THEN [ok |-> TRUE, lat_digit |-> 32, flag_ns |-> 83, flag_offset |-> 0, flag_we |-> 69]
    ELSE IF 80 <= ch /\ ch <= 89
    THEN [ok |-> TRUE, lat_digit |-> ch - 32, flag_ns |-> 78, flag_offset |-> 100, flag_we |-> 87]
    ELSE IF ch = 90
    THEN [ok |-> TRUE, lat_digit |-> 32, flag_ns |-> 78, flag_offset |-> 100, flag_we |-> 87]
    ELSE [ok |-> FALSE, lat_digit |-> 32, flag_ns |-> 83, flag_offset |-> 0, flag_we |-> 69]

\* dest.split('-', 1)[0].upper()
DestCall(dest) ==
    LET d == IndexOf(dest, 45)
    IN  UpperStr(IF d = 0 THEN dest ELSE Slice(dest, 0, d - 1))

\* ch if ch.isdigit() else '0', then int() of two digits
TwoDigits(lat_digits, i) ==
    LET v(c) == IF IsDigit(c) THEN c - 48 ELSE 0
    IN  10 * v(lat_digits[i]) + v(lat_digits[i + 1])

\* lat_val in grid units: degrees, minutes and hundredths from the six
\* digits, negated when the indicator is 'S'
MicELatitude(destcall) ==
    LET lat_digits == [i \in 1..6 |-> MicEChar(destcall[i]).lat_digit]
        lat_val == (TwoDigits(lat_digits, 1) * 6000 + TwoDigits(lat_digits, 3) * 100
                    + TwoDigits(lat_digits, 5)) * Grid
    IN  IF MicEChar(destcall[4]).flag_ns = 83 THEN -lat_val ELSE lat_val

\* lon_deg = dplus - 28 + lon_offset
MicELonDeg(destcall, info) == info[2] - 28 + MicEChar(destcall[5]).flag_offset

\* the minutes kept as they are, whatever their size
MicELonMinNoWrap(info) == info[3] - 28

\* lon_min = mplus - 28, less 60 when that is 60 or more
MicELonMin(info) == IF info[3] - 28 >= 60 THEN info[3] - 28 - 60 ELSE info[3] - 28

\* lon_hun = hplus - 28, less 100 when that is 100 or more
MicELonHun(info) == IF info[4] - 28 >= 100 THEN info[4] - 28 - 100 ELSE info[4] - 28

\* lon_val in grid units, from info[1..3] and the flags of characters 4 and 5
MicELongitude(destcall, info) ==
    LET lon_val == (MicELonDeg(destcall, info) * 6000 + MicELonMin(info) * 100
                    + MicELonHun(info)) * Grid
    IN  IF MicEChar(destcall[6]).flag_we = 87 THEN -lon_val ELSE lon_val

\* the speed left as it is at 800 knots and above
MicESpeedNoWrap(info) == (info[5] - 28) * 10 + ((info[6] - 28) \div 10)

\* speed_knots, from info[4] and info[5]; // is the floor division
MicESpeed(info) ==
    LET speed_knots == (info[5] - 28) * 10 + ((info[6] - 28) \div 10)
    IN  IF speed_knots >= 800 THEN speed_knots - 800 ELSE speed_knots

\* course_deg, from info[5] and info[6]
MicECourse(info) ==
    LET course_deg == (((info[6] - 28) % 10) * 100) + (info[7] - 28)
    IN  IF course_deg >= 400 THEN course_deg - 400 ELSE course_deg

\* full_comment: " cse/spd=C/Skts", then the stripped comment after a space
MicEComment(info) ==
    LET comment == Strip(SliceFrom(info, 9))
    IN  RStrip(<<32, 99, 115, 101, 47, 115, 112, 100, 61>> \o DecStr(MicECourse(info))
               \o <<47>> \o DecStr(MicESpeed(info)) \o <<107, 116, 115>>
               \o (IF comment # <<>> THEN <<32>> \o comment ELSE <<>>))

\* the call of build_aprs_position and what follows it; the call stands
\* outside every try block, so what it raises leaves decode_mic_e
MicEPayload(destcall, info) ==
    LET payload_bytes == build_aprs_position(MicELatitude(destcall),
                             MicELongitude(destcall, info),
                             <<info[9]>>, <<info[8]>>, MicEComment(info))
    IN  IF payload_bytes.st = "raise" THEN payload_bytes
        ELSE [st |-> "ok",
              text |-> payload_bytes.bytes \o <<123, 109, 105, 99, 45, 101, 125>>]

\* the last six characters taken instead of the first six
DestSixLast(s) == SliceFrom(s, Len(s) - 6)

\* destcall = destcall[:6]
DestSix(s) == Slice(s, 0, 6)

decode_mic_e(dest, info) ==
    IF info = <<>> \/ info[1] \notin {39, 96} THEN NoneResult
    ELSE IF Len(info) < 9 THEN NoneResult
    ELSE IF Len(DestCall(dest)) < 6 THEN NoneResult
    ELSE LET destcall == DestSix(DestCall(dest)) IN
         IF \E i \in 1..6 : ~MicEChar(destcall[i]).ok THEN NoneResult
         ELSE MicEPayload(destcall, info)

\* the locals of decode_mic_e at its call of build_aprs_position; None when
\* it returned before; lat_val and lon_val in grid units
MicELocals(dest, info) ==
    IF decode_mic_e(dest, info) = NoneResult THEN NoneResult
    ELSE LET destcall == DestSix(DestCall(dest)) IN
         [st |-> "set",
          lat_val |-> MicELatitude(destcall),
          lon_deg |-> MicELonDeg(destcall, info),
          lon_min |-> MicELonMin(info),
          lon_hun |-> MicELonHun(info),
          lon_val |-> MicELongitude(destcall, info),
          speed_knots |-> MicESpeed(info),
          course_deg |-> MicECourse(info)]

-----------------------------------------------------------------------------
(* KISS framing *)

FEND == 192

FESC == 219

TFEND == 220

TFESC == 221

\* every byte copied as it is, FEND and FESC too
KissEscapeNone(b) == <<b>>

\* FEND escaped, FESC copied as it is
KissEscapeFendOnly(b) == IF b = FEND THEN <<FESC, TFEND>> ELSE <<b>>

\* the body of the for loop of kiss_encode, for one byte
KissEscape(b) ==
    IF b = FEND THEN <<FESC, TFEND>>
    ELSE IF b = FESC THEN <<FESC, TFESC>>
    ELSE <<b>>

RECURSIVE KissEscapeAll(_)
KissEscapeAll(bytes) ==
    IF bytes = <<>> THEN <<>>
    ELSE KissEscape(Head(bytes)) \o KissEscapeAll(Tail(bytes))

kiss_encode(frame) == <<FEND, 0>> \o KissEscapeAll(frame) \o <<FEND>>

\* current = None
NoCurrent == [open |-> FALSE, acc |-> <<>>]

\* current = bytearray()
NewCurrent == [open |-> TRUE, acc |-> <<>>]

\* a closed frame emitted whatever its type byte
CloseFrameAnyType(current, frames) ==
    IF Len(current.acc) >= 1 THEN Append(frames, Tail(current.acc)) ELSE frames

\* a FEND closing the current frame: what the frame list becomes
CloseFrame(current, frames) ==
    IF Len(current.acc) >= 1 /\ current.acc[1] = 0
    THEN Append(frames, Tail(current.acc))
    ELSE frames

\* an invalid escape keeping the byte after FESC
UnescapeKeep(current, next_b) ==
    IF next_b = TFEND THEN [current EXCEPT !.acc = Append(@, FEND)]
    ELSE IF next_b = TFESC THEN [current EXCEPT !.acc = Append(@, FESC)]
    ELSE [current EXCEPT !.acc = Append(@, next_b)]

\* the two bytes FESC, next_b inside a frame: what current becomes
Unescape(current, next_b) ==
    IF next_b = TFEND THEN [current EXCEPT !.acc = Append(@, FEND)]
    ELSE IF next_b = TFESC THEN [current EXCEPT !.acc = Append(@, FESC)]
    ELSE current

\* a byte outside a frame starting a frame of its own
StrayByteOpens(current, b) == [open |-> TRUE, acc |-> <<b>>]

\* a byte read while current is None: ignored
StrayByte(current, b) == current

\* the remainder without its first byte
RemainderNoType(current) ==
    IF current.open /\ current.acc # <<>> THEN Tail(current.acc) ELSE <<>>

\* remainder = bytes(current) if current else b''
Remainder(current) ==
    IF current.open /\ current.acc # <<>> THEN current.acc ELSE <<>>

RECURSIVE UnframeLoop(_, _, _, _)
\* the while loop of kiss_unframe, i counted from 0 as in the source
UnframeLoop(stream, i, current, frames) ==
    IF ~(i < Len(stream))
    THEN [frames |-> frames, remainder |-> Remainder(current)]
    ELSE LET b == stream[i + 1] IN
         IF b = FEND
         THEN IF current.open
              THEN UnframeLoop(stream, i + 1, NoCurrent, CloseFrame(current, frames))
              ELSE UnframeLoop(stream, i + 1, NewCurrent, frames)
         ELSE IF ~current.open
         THEN UnframeLoop(stream, i + 1, StrayByte(current, b), frames)
         ELSE IF b = FESC /\ i + 1 < Len(stream)
         THEN UnframeLoop(stream, i + 2, Unescape(current, stream[i + 2]), frames)
         ELSE UnframeLoop(stream, i + 1, [current EXCEPT !.acc = Append(@, b)], frames)

kiss_unframe(stream) == UnframeLoop(stream, 0, NoCurrent, <<>>)

-----------------------------------------------------------------------------
(* The pure KISS functions applied to bounded inputs *)

MaxFrameLen == 3

\* the most extra FEND bytes between two frames
MaxIdle == 2

\* the frame that follows: empty, a type-like byte, and bytes that get escaped
PairSample == {<<>>, <<0>>, <<65, FEND>>, <<FESC, TFEND>>}

pairVars == <<pair_second, pair_gap, pair_out>>

\* payload bytes: the data type byte, a plain byte and the four KISS specials
KissBytes == {0, 65, FEND, FESC, TFEND, TFESC}

NoResult == [frames |-> <<>>, remainder |-> <<>>]

\* the harnesses that a specification leaves unused stay in these states
KissIdle ==
    /\ ax25_frame = <<>> /\ kiss_data = <<>> /\ split_at = 0
    /\ whole = NoResult /\ first = NoResult /\ second = NoResult
    /\ pair_second = <<>> /\ pair_gap = 0 /\ pair_out = NoResult
    /\ kpc = "idle"

AddrIdle ==
    /\ call_in = <<>> /\ ssid_in = 0 /\ last_in = FALSE
    /\ addr_in = <<>> /\ addr_decoded = NoneResult /\ apc = "idle"

FrameIdle ==
    /\ in_dest = <<>> /\ in_source = <<>> /\ in_path = <<>> /\ in_info = <<>>
    /\ raw_frame = <<>> /\ decoded = NoneResult /\ fpc = "idle"

MicIdle ==
    /\ mic_dest = <<>> /\ mic_info = <<>> /\ mic_result = NoneResult
    /\ mic_locals = NoneResult /\ mpc = "idle"

ReaderIdle ==
    /\ tnc_sent = <<>> /\ sock_rx = <<>> /\ delivered = <<>> /\ buffer = <<>> /\ msg_queue = <<>>
    /\ running = FALSE

UnframeIdle ==
    /\ seg_type = <<>> /\ seg_pre = <<>> /\ seg_esc = <<>> /\ seg_post = <<>>
    /\ seg_stray = <<>> /\ seg_closed = FALSE /\ seg_tail = <<>>
    /\ raw_stream = <<>> /\ seg_out = NoResult /\ upc = "idle"

AprsIdle ==
    /\ msg_to = <<>> /\ msg_body = <<>> /\ msg_num = <<>> /\ msg_bytes = NoneResult
    /\ pos_lat = 0 /\ pos_lon = 0 /\ pos_table = <<>> /\ pos_code = <<>>
    /\ pos_note = <<>> /\ pos_bytes = NoneResult /\ bpc = "idle"

\* APRSTUI.__init__ on a fresh StationConfig: nothing sent, nothing shown
TuiFresh ==
    /\ msg_id_counter = 1 /\ mid_out = <<>> /\ mid_prev = <<>>
    /\ last_message = NoneResult /\ selected_heard = <<>>
    /\ messages = <<>> /\ logged = <<>> /\ heard = {} /\ taken = <<>>
    /\ sent_count = 0 /\ sent_frame = <<>> /\ last_sent = NoneResult
    /\ op_pre = NoneResult /\ last_op = "none" /\ ops_done = 0

TuiIdle == TuiFresh /\ ack_enabled = TRUE /\ tpc = "idle"

CloseIdle ==
    /\ sock_attr = "none" /\ sock_os = "closed" /\ rpc = "idle" /\ reader_exit = "none"
    /\ cpc = "idle" /\ spc = "idle" /\ send_calls = 0 /\ send_late = FALSE
    /\ tx_count = 0 /\ late_tx = FALSE /\ escaped = {}

KissInit ==
    /\ AddrIdle /\ FrameIdle /\ MicIdle /\ ReaderIdle /\ UnframeIdle /\ AprsIdle /\ TuiIdle /\ CloseIdle
    /\ ax25_frame \in SeqsUpTo(KissBytes, MaxFrameLen)
    /\ kiss_data = <<>>
    /\ split_at = 0
    /\ whole = NoResult
    /\ first = NoResult
    /\ second = NoResult
    /\ pair_second = <<>>
    /\ pair_gap = 0
    /\ pair_out = NoResult
    /\ kpc = "start"

KissEncode ==
    /\ kpc = "start"
    /\ kiss_data' = kiss_encode(ax25_frame)
    /\ kpc' = "encoded"
    /\ UNCHANGED <<ax25_frame, split_at, whole, first, second, pairVars, notKiss>>

\* one recv delivers the whole frame
UnframeWhole ==
    /\ kpc = "encoded"
    /\ whole' = kiss_unframe(kiss_data)
    /\ kpc' = "whole"
    /\ UNCHANGED <<ax25_frame, kiss_data, split_at, first, second, pairVars, notKiss>>

\* the first of two recv chunks: self.buffer is empty before it
UnframeFirst ==
    /\ kpc = "encoded"
    /\ \E k \in 0..Len(kiss_data) :
          /\ split_at' = k
          /\ first' = kiss_unframe(Slice(kiss_data, 0, k))
    /\ kpc' = "first"
    /\ UNCHANGED <<ax25_frame, kiss_data, whole, second, pairVars, notKiss>>

\* the second chunk: self.buffer (the remainder) + data
UnframeSecond ==
    /\ kpc = "first"
    /\ second' = kiss_unframe(first.remainder \o SliceFrom(kiss_data, split_at))
    /\ kpc' = "second"
    /\ UNCHANGED <<ax25_frame, kiss_data, split_at, whole, first, pairVars, notKiss>>

\* one recv delivers two encoded frames with idle FEND bytes between them
UnframePair ==
    /\ kpc = "encoded"
    /\ \E f2 \in PairSample, n \in 0..MaxIdle :
          /\ pair_second' = f2
          /\ pair_gap' = n
          /\ pair_out' = kiss_unframe(kiss_data \o [j \in 1..n |-> FEND] \o kiss_encode(f2))
    /\ kpc' = "pair"
    /\ UNCHANGED <<ax25_frame, kiss_data, split_at, whole, first, second, notKiss>>

KissNext == KissEncode \/ UnframeWhole \/ UnframeFirst \/ UnframeSecond \/ UnframePair

SpecKiss == KissInit /\ [][KissNext]_vars

-----------------------------------------------------------------------------
(* kiss_unframe applied to one frame as a TNC may send it, whole or not yet *)
(* closed, with bytes before and after it                                  *)

MaxPlain == 2

\* bytes that are neither FEND nor FESC
PlainBytes == {0, 65, TFEND}

\* the byte after a FESC: the two transposed codes and four others
EscSample == {TFEND, TFESC, FEND, FESC, 0, 65}

\* bytes outside a frame: none, or a type byte, a letter and a FESC
StraySample == {<<>>, <<0, 65, FESC>>}

UnframeInit ==
    /\ KissIdle /\ AddrIdle /\ FrameIdle /\ MicIdle /\ ReaderIdle /\ AprsIdle /\ TuiIdle /\ CloseIdle
    /\ seg_type \in {<<>>, <<0>>, <<1>>}
    /\ seg_pre \in SeqsUpTo(PlainBytes, MaxPlain)
    /\ seg_esc \in {<<>>} \cup {<<FESC, x>> : x \in EscSample}
    /\ seg_post \in SeqsUpTo(PlainBytes, MaxPlain)
    /\ seg_stray \in StraySample
    /\ seg_closed \in BOOLEAN
    /\ seg_tail \in (IF seg_closed THEN StraySample ELSE {<<>>})
    /\ raw_stream = seg_stray \o <<FEND>> \o seg_type \o seg_pre \o seg_esc \o seg_post
                        \o (IF seg_closed THEN <<FEND>> \o seg_tail ELSE <<>>)
    /\ seg_out = NoResult
    /\ upc = "start"

UnframeStream ==
    /\ upc = "start"
    /\ seg_out' = kiss_unframe(raw_stream)
    /\ upc' = "done"
    /\ UNCHANGED <<seg_type, seg_pre, seg_esc, seg_post, seg_stray, seg_closed,
                   seg_tail, raw_stream, notUnframe>>

UnframeNext == UnframeStream

SpecUnframe == UnframeInit /\ [][UnframeNext]_vars

-----------------------------------------------------------------------------
(* The address codec applied to bounded inputs *)

MaxSsid == 16

MaxAddrLen == 8

\* "A", "K9", "WIDE1", "N0CALL", and outside the callsign format: "", "ab",
\* "LONGCAL"
CallSample ==
    {<<65>>, <<75, 57>>, <<87, 73, 68, 69, 49>>, <<78, 48, 67, 65, 76, 76>>,
     <<>>, <<97, 98>>, <<76, 79, 78, 71, 67, 65, 76>>}

AddrInit ==
    /\ KissIdle /\ FrameIdle /\ MicIdle /\ ReaderIdle /\ UnframeIdle /\ AprsIdle /\ TuiIdle /\ CloseIdle
    /\ call_in \in CallSample
    /\ ssid_in \in (0 - 1)..MaxSsid
    /\ last_in \in BOOLEAN
    /\ addr_in = <<>>
    /\ addr_decoded = NoneResult
    /\ apc = "start"

EncodeAddress ==
    /\ apc = "start"
    /\ addr_in' = encode_ax25_address(call_in, ssid_in, last_in)
    /\ apc' = "encoded"
    /\ UNCHANGED <<call_in, ssid_in, last_in, addr_decoded, notAddr>>

\* a caller cuts the address field at the wrong place: n bytes, n # 7
Reslice ==
    /\ apc = "encoded"
    /\ \E n \in (0..MaxAddrLen) \ {7} : addr_in' = Slice(addr_in \o addr_in, 0, n)
    /\ apc' = "resliced"
    /\ UNCHANGED <<call_in, ssid_in, last_in, addr_decoded, notAddr>>

DecodeAddress ==
    /\ apc \in {"encoded", "resliced"}
    /\ addr_decoded' = decode_ax25_address(addr_in)
    /\ apc' = IF apc = "encoded" THEN "decoded" ELSE "decoded_resliced"
    /\ UNCHANGED <<call_in, ssid_in, last_in, addr_in, notAddr>>

AddrNext == EncodeAddress \/ Reslice \/ DecodeAddress

SpecAddr == AddrInit /\ [][AddrNext]_vars

-----------------------------------------------------------------------------
(* The frame codec applied to bounded inputs *)

MaxPath == 8

MaxGroups == 4

\* "APZ001", "N0CALL-0", "K9-15", "A-7"
StationSample ==
    {<<65, 80, 90, 48, 48, 49>>, <<78, 48, 67, 65, 76, 76, 45, 48>>,
     <<75, 57, 45, 49, 53>>, <<65, 45, 55>>}

\* "WIDE1-1", "Q"
DigiSample == {<<87, 73, 68, 69, 49, 45, 49>>, <<81>>}

InfoSample == {<<>>, <<58, 192, 3, 240>>}

\* address groups as a TNC may deliver them: "AB" with the SSID byte plain,
\* with E (last), with H (repeated), and with H, E and SSID 1
GroupSample ==
    {<<130, 132, 64, 64, 64, 64, b>> : b \in {96, 97, 224, 227}}

\* what follows the address groups: nothing, a cut trailer, control and PID
\* of a UI frame with and without info, other control or PID values, seven
\* bytes that fill one more group, and nine that bring one group to 16 bytes
TrailerSample ==
    {<<>>, <<3>>, <<3, 240>>, <<3, 240, 65, 66>>, <<3, 241>>, <<0, 240>>,
     <<240, 3>>, <<65>>, <<3, 240, 1, 2, 3, 4, 6>>,
     <<3, 240, 58, 65, 66, 67, 68, 69, 70>>}

RawFrames ==
    {Concat(g) \o t : g \in SeqsUpTo(GroupSample, MaxGroups), t \in TrailerSample}

FrameInit ==
    /\ KissIdle /\ AddrIdle /\ MicIdle /\ ReaderIdle /\ UnframeIdle /\ AprsIdle /\ TuiIdle /\ CloseIdle
    /\ decoded = NoneResult
    /\ \/ /\ in_dest \in StationSample
          /\ in_source \in StationSample
          /\ in_path \in SeqsUpTo(DigiSample, MaxPath)
          /\ in_info \in InfoSample
          /\ raw_frame = <<>>
          /\ fpc = "start"
       \/ /\ in_dest = <<>> /\ in_source = <<>> /\ in_path = <<>> /\ in_info = <<>>
          /\ raw_frame \in RawFrames
          /\ fpc = "raw"

EncodeFrame ==
    /\ fpc = "start"
    /\ raw_frame' = encode_ax25_frame(in_dest, in_source, in_path, in_info)
    /\ fpc' = "encoded"
    /\ UNCHANGED <<in_dest, in_source, in_path, in_info, decoded, notFrame>>

DecodeFrame ==
    /\ fpc \in {"encoded", "raw"}
    /\ decoded' = decode_ax25_frame(raw_frame)
    /\ fpc' = IF fpc = "encoded" THEN "done" ELSE "raw_done"
    /\ UNCHANGED <<in_dest, in_source, in_path, in_info, raw_frame, notFrame>>

FrameNext == EncodeFrame \/ DecodeFrame

SpecFrame == FrameInit /\ [][FrameNext]_vars

\* encode_ax25_address called directly and through encode_ax25_frame
AddrFrameInit == AddrInit \/ FrameInit

AddrFrameNext == AddrNext \/ FrameNext

SpecAddrFrame == AddrFrameInit /\ [][AddrFrameNext]_vars

-----------------------------------------------------------------------------
(* The Mic-E decoder applied to bounded inputs *)

\* "TRQP7T" with one character replaced by 'M', 'N', 'O', '.' or '['
MicBadDestSample ==
    {[<<84, 82, 81, 80, 55, 84>> EXCEPT ![i] = c] :
        i \in 1..6, c \in {77, 78, 79, 46, 91}}

\* "TRQP7T", "4A0K1L", "000000", "trqp7t", "S32U6T-3", "TRQP7TX", "APRS",
\* "N0CALL", "PPPPPP", "ZKLZKL", "999999", "JY9Y5L", "TRQP7TM", "TRQP-7T",
\* "123P56", "123456"
MicDestSample ==
    {<<84, 82, 81, 80, 55, 84>>, <<52, 65, 48, 75, 49, 76>>,
     <<48, 48, 48, 48, 48, 48>>, <<116, 114, 113, 112, 55, 116>>,
     <<83, 51, 50, 85, 54, 84, 45, 51>>, <<84, 82, 81, 80, 55, 84, 88>>,
     <<65, 80, 82, 83>>, <<78, 48, 67, 65, 76, 76>>,
     <<80, 80, 80, 80, 80, 80>>, <<90, 75, 76, 90, 75, 76>>,
     <<57, 57, 57, 57, 57, 57>>, <<74, 89, 57, 89, 53, 76>>,
     <<84, 82, 81, 80, 55, 84, 77>>, <<84, 82, 81, 80, 45, 55, 84>>,
     <<49, 50, 51, 80, 53, 54>>, <<49, 50, 51, 52, 53, 54>>}
        \cup MicBadDestSample

\* the data type identifiers ' and `, and ! of a plain position report
MicTypeSample == {39, 96, 33}

\* info[1..6]: longitude, speed and course bytes, at both ends of the byte
\* range, at both ends of the printable range and in between
MicDataSample ==
    {<<28, 28, 28, 28, 28, 28>>, <<127, 127, 127, 127, 127, 127>>,
     <<0, 0, 0, 0, 0, 0>>, <<255, 255, 255, 255, 255, 255>>,
     <<40, 99, 130, 108, 47, 60>>}

\* symbol code and table characters, ASCII and not
MicSymbolSample == {<<62, 47>>, <<128, 47>>, <<62, 92>>, <<62, 200>>, <<255, 255>>}

\* info[9:]: nothing, " Hi " and a Latin-1 letter
MicCommentSample == {<<>>, <<32, 72, 105, 32>>, <<233>>}

\* an info field, whole or cut short
MicInfoSample ==
    {Slice(<<t>> \o d \o y \o c, 0, n) :
        t \in MicTypeSample, d \in MicDataSample, y \in MicSymbolSample,
        c \in MicCommentSample, n \in {0, 1, 8, 9, 13}}

\* info[1..6] with one byte running through the printable range 28..127 and
\* the others at its low end, at its high end or in between
MicDataSweep ==
    {[d EXCEPT ![p] = v] :
        d \in {<<28, 28, 28, 28, 28, 28>>, <<127, 127, 127, 127, 127, 127>>,
               <<40, 99, 130, 108, 47, 60>>},
        p \in 1..6, v \in 28..127}

\* Mic-E info fields with the symbol '>' of table '/' and no comment
MicSweepInfo == {<<39>> \o d \o <<62, 47>> : d \in MicDataSweep}

MicInit ==
    /\ KissIdle /\ AddrIdle /\ FrameIdle /\ ReaderIdle /\ UnframeIdle /\ AprsIdle /\ TuiIdle /\ CloseIdle
    /\ mic_dest \in MicDestSample
    /\ mic_info \in MicInfoSample \cup MicSweepInfo
    /\ mic_result = NoneResult
    /\ mic_locals = NoneResult
    /\ mpc = "start"

DecodeMicE ==
    /\ mpc = "start"
    /\ mic_result' = decode_mic_e(mic_dest, mic_info)
    /\ mic_locals' = MicELocals(mic_dest, mic_info)
    /\ mpc' = "done"
    /\ UNCHANGED <<mic_dest, mic_info, notMic>>

MicNext == DecodeMicE

SpecMicE == MicInit /\ [][MicNext]_vars

-----------------------------------------------------------------------------
(* The payload builders applied to bounded inputs *)

MaxTextLen == 69

\* a text of n lowercase letters
Filler(n) == [i \in 1..n |-> 97 + (i % 26)]

\* "", "n0call", "N0CALL", "AB1CDE-15" (nine characters), "LONGCALL-12"
AddresseeSample ==
    {<<>>, <<110, 48, 99, 97, 108, 108>>, <<78, 48, 67, 65, 76, 76>>,
     <<65, 66, 49, 67, 68, 69, 45, 49, 53>>,
     <<76, 79, 78, 71, 67, 65, 76, 76, 45, 49, 50>>}

\* texts of every length up to MaxTextLen, "hello", a Latin-1 letter alone and
\* the same letter as 68th character
TextSample ==
    {Filler(n) : n \in 0..MaxTextLen}
        \cup {<<104, 101, 108, 108, 111>>, <<233>>, Filler(67) \o <<233>>}

\* None and integers below, inside and above 0..999
MsgIdSample == {<<>>} \cup {<<n>> : n \in {0 - 1, 0, 5, 999, 1000, 12345}}

\* d degrees, m minutes and h hundredths of a minute, in grid units
DegMin(d, m, h) == ((d * 60 + m) * 100 + h) * Grid

\* latitudes on whole hundredths of a minute, both signs, and three off them:
\* one that rounds down, one that rounds up, one that rounds up to 60.00
LatSample ==
    {0, DegMin(45, 30, 0), 0 - DegMin(45, 30, 0), DegMin(89, 59, 99),
     0 - DegMin(7, 5, 7), DegMin(45, 30, 0) + SubSteps,
     DegMin(45, 30, 0) + SubSteps + 1, 0 - (DegMin(12, 59, 99) + SubSteps + 1)}

LonSample ==
    {0, DegMin(9, 15, 0), 0 - DegMin(9, 15, 0), DegMin(179, 59, 99),
     0 - DegMin(122, 25, 10), DegMin(100, 0, 1), DegMin(9, 15, 0) + SubSteps,
     0 - (DegMin(9, 59, 99) + SubSteps + 1)}

\* '/' and '\'
SymbolTableSample == {<<47>>, <<92>>}

\* '>' and '-'
SymbolCodeSample == {<<62>>, <<45>>}

\* "" and "Hi"
CommentSample == {<<>>, <<72, 105>>}

AprsInit ==
    /\ KissIdle /\ AddrIdle /\ FrameIdle /\ MicIdle /\ ReaderIdle /\ UnframeIdle
    /\ TuiIdle /\ CloseIdle
    /\ msg_bytes = NoneResult /\ pos_bytes = NoneResult
    /\ \/ /\ msg_to \in AddresseeSample
          /\ msg_body \in TextSample
          /\ msg_num \in MsgIdSample
          /\ pos_lat = 0 /\ pos_lon = 0 /\ pos_table = <<>> /\ pos_code = <<>>
          /\ pos_note = <<>>
          /\ bpc = "msg"
       \/ /\ msg_to = <<>> /\ msg_body = <<>> /\ msg_num = <<>>
          /\ pos_lat \in LatSample
          /\ pos_lon \in LonSample
          /\ pos_table \in SymbolTableSample
          /\ pos_code \in SymbolCodeSample
          /\ pos_note \in CommentSample
          /\ bpc = "pos"

BuildMessage ==
    /\ bpc = "msg"
    /\ msg_bytes' = build_aprs_message(msg_to, msg_body, msg_num)
    /\ bpc' = "msg_done"
    /\ UNCHANGED <<msg_to, msg_body, msg_num, pos_lat, pos_lon, pos_table, pos_code,
                   pos_note, pos_bytes, notAprs>>

BuildPosition ==
    /\ bpc = "pos"
    /\ pos_bytes' = build_aprs_position(pos_lat, pos_lon, pos_table, pos_code, pos_note)
    /\ bpc' = "pos_done"
    /\ UNCHANGED <<msg_to, msg_body, msg_num, msg_bytes, pos_lat, pos_lon, pos_table,
                   pos_code, pos_note, notAprs>>

AprsNext == BuildMessage \/ BuildPosition

SpecAprs == AprsInit /\ [][AprsNext]_vars

-----------------------------------------------------------------------------
(* StationConfig.next_msg_id called again and again *)

\* the counter wrapped one call late
next_msg_id_late(counter) ==
    [mid |-> counter,
     counter |-> IF counter + 1 > 1000 THEN 1 ELSE counter + 1]

\* next_msg_id: the id returned and the counter left behind
next_msg_id(counter) ==
    [mid |-> counter,
     counter |-> IF counter + 1 > 999 THEN 1 ELSE counter + 1]

\* msg_id_counter: int = 1
MsgIdInit ==
    /\ KissIdle /\ AddrIdle /\ FrameIdle /\ MicIdle /\ ReaderIdle /\ UnframeIdle
    /\ AprsIdle /\ CloseIdle
    /\ TuiFresh
    /\ ack_enabled = TRUE
    /\ tpc = "ids"

CallNextMsgId ==
    /\ tpc = "ids"
    /\ mid_out' = <<next_msg_id(msg_id_counter).mid>>
    /\ mid_prev' = mid_out
    /\ msg_id_counter' = next_msg_id(msg_id_counter).counter
    /\ UNCHANGED <<ack_enabled, last_message, selected_heard, messages, logged,
                   heard, taken, sent_count, sent_frame, last_sent, op_pre,
                   last_op, ops_done, tpc, notTui>>

MsgIdNext == CallNextMsgId

SpecMsgId == MsgIdInit /\ [][MsgIdNext]_vars

-----------------------------------------------------------------------------
(* The keys of APRSTUI.run that send messages: m, 1, 2, r, a and the mouse *)

\* the most keys handled in one run
MaxOps == 4

\* cfg.tocall, cfg.callsign and cfg.path: "APZ001", "N0CALL-7", ["WIDE1-1"]
CfgTocall == <<65, 80, 90, 48, 48, 49>>

CfgCallsign == <<78, 48, 67, 65, 76, 76, 45, 55>>

CfgPath == << <<87, 73, 68, 69, 49, 45, 49>> >>

\* cfg.quick_msg1 and cfg.quick_msg2: "QSL? 73", "QSL! 73"
QuickMsgs == {<<81, 83, 76, 63, 32, 55, 51>>, <<81, 83, 76, 33, 32, 55, 51>>}

\* what the user types at a prompt: ESC, or keys and Enter
Esc == [esc |-> TRUE, keys |-> <<>>]

Typed(keys) == [esc |-> FALSE, keys |-> keys]

\* at "To station: ": ESC, Enter alone, " k9 "
DestKeys == {Esc, Typed(<<>>), Typed(<<32, 107, 57, 32>>)}

\* at "Message: ": ESC, Enter alone, "Hi", and an e with acute accent
TextKeys == {Esc, Typed(<<>>), Typed(<<72, 105>>), Typed(<<233>>)}

\* a callsign of the heard list under the mouse: "AB1CD-7"
HeardSample == {<<65, 66, 49, 67, 68, 45, 55>>}

\* _prompt_cancelable: None after ESC, the default after Enter alone
PromptResult(typed, default) ==
    IF typed.esc THEN NoneResult
    ELSE [st |-> "ok", val |-> IF typed.keys = <<>> THEN default ELSE typed.keys]

\* a repeat taking the id after the stored one
UseIdBumped(msg_id, enabled) ==
    IF enabled /\ msg_id # <<>> THEN <<msg_id[1] + 1>> ELSE <<>>

\* use_id = msg_id if self.ack_enabled else None
UseId(msg_id, enabled) == IF enabled THEN msg_id ELSE <<>>

\* the entry of self.messages and of the log for one sent payload
OwnEntry(dest, payload) ==
    [src |-> CfgCallsign, dest |-> dest, info |-> payload, path |-> CfgPath]

\* what every key leaves behind: the state before it and its name
KeyHandled(key) ==
    /\ op_pre' = [st |-> "set", counter |-> msg_id_counter,
                  last_message |-> last_message, sent_count |-> sent_count,
                  sent_frame |-> sent_frame]
    /\ last_op' = key
    /\ ops_done' = ops_done + 1

\* a prompt cancelled: the handler returns
Cancelled ==
    UNCHANGED <<msg_id_counter, mid_out, mid_prev, ack_enabled, last_message,
                selected_heard, messages, logged, sent_count, sent_frame,
                last_sent, tpc>>

\* no key handler touches the heard set or the queue
KeyLeaves == UNCHANGED <<heard, taken, notTui>>

\* payload built, framed, sent, shown and logged; an exception of
\* build_aprs_message leaves the handler and run()
Transmit(dest, text, msg_id) ==
    LET payload == build_aprs_message(dest, text, msg_id) IN
    IF payload.st = "ok"
    THEN /\ sent_frame' = encode_ax25_frame(CfgTocall, CfgCallsign, CfgPath,
                                            payload.bytes)
         /\ sent_count' = sent_count + 1
         /\ messages' = Append(messages, OwnEntry(dest, payload.bytes))
         /\ logged' = Append(logged, OwnEntry(dest, payload.bytes))
         /\ tpc' = "run"
    ELSE /\ tpc' = "crashed"
         /\ UNCHANGED <<sent_frame, sent_count, messages, logged>>

\* the common end of _compose_message and _send_quick_message
SendNew(dest, text) ==
    LET got == next_msg_id(msg_id_counter)
        msg_id == IF ack_enabled THEN <<got.mid>> ELSE <<>>
        built == build_aprs_message(dest, text, msg_id).st = "ok"
    IN  /\ IF ack_enabled
           THEN /\ msg_id_counter' = got.counter
                /\ mid_out' = <<got.mid>>
                /\ mid_prev' = mid_out
           ELSE UNCHANGED <<msg_id_counter, mid_out, mid_prev>>
        /\ Transmit(dest, text, msg_id)
        /\ IF built
           THEN /\ last_message' = [st |-> "set", dest |-> dest, text |-> text,
                                    msg_id |-> msg_id]
                /\ last_sent' = [st |-> "set", dest |-> dest, text |-> text,
                                 msg_id |-> msg_id]
           ELSE UNCHANGED <<last_message, last_sent>>
        /\ UNCHANGED <<ack_enabled, selected_heard>>

TuiInit ==
    /\ KissIdle /\ AddrIdle /\ FrameIdle /\ MicIdle /\ ReaderIdle /\ UnframeIdle
    /\ AprsIdle /\ CloseIdle
    /\ TuiFresh
    /\ ack_enabled \in BOOLEAN
    /\ tpc = "run"

\* key m
ComposeMessage ==
    /\ tpc = "run" /\ ops_done < MaxOps
    /\ KeyHandled("compose")
    /\ \E dest_keys \in DestKeys, text_keys \in TextKeys :
          LET default_dest == IF selected_heard = <<>> THEN <<>> ELSE selected_heard[1]
              dest_ans == PromptResult(dest_keys, default_dest)
              text_ans == PromptResult(text_keys, <<>>)
          IN  IF dest_ans.st = "none" \/ dest_ans.val = <<>> THEN Cancelled
              ELSE IF text_ans.st = "none" THEN Cancelled
              ELSE SendNew(UpperStr(Strip(dest_ans.val)), text_ans.val)
    /\ KeyLeaves

\* keys 1 and 2
SendQuickMessage ==
    /\ tpc = "run" /\ ops_done < MaxOps
    /\ KeyHandled("quick")
    /\ \E quick_text \in QuickMsgs, dest_keys \in DestKeys :
          IF selected_heard # <<>>
          THEN SendNew(UpperStr(Strip(selected_heard[1])), quick_text)
          ELSE LET dest_ans == PromptResult(dest_keys, <<>>) IN
               IF dest_ans.st = "none" \/ dest_ans.val = <<>> THEN Cancelled
               ELSE SendNew(UpperStr(Strip(dest_ans.val)), quick_text)
    /\ KeyLeaves

\* key a
ToggleAck ==
    /\ tpc = "run" /\ ops_done < MaxOps
    /\ KeyHandled("toggle")
    /\ ack_enabled' = ~ack_enabled
    /\ UNCHANGED <<msg_id_counter, mid_out, mid_prev, last_message, selected_heard,
                   messages, logged, sent_count, sent_frame, last_sent, tpc>>
    /\ KeyLeaves

\* key r
RepeatLastMessage ==
    /\ tpc = "run" /\ ops_done < MaxOps
    /\ KeyHandled("repeat")
    /\ IF last_message.st = "none" THEN Cancelled
       ELSE /\ Transmit(last_message.dest, last_message.text,
                        UseId(last_message.msg_id, ack_enabled))
            /\ UNCHANGED <<msg_id_counter, mid_out, mid_prev, ack_enabled,
                           last_message, selected_heard, last_sent>>
    /\ KeyLeaves

\* a click on the heard list or beside it
MouseClick ==
    /\ tpc = "run" /\ ops_done < MaxOps
    /\ KeyHandled("mouse")
    /\ \E picked \in {<<>>} \cup {<<h>> : h \in HeardSample} :
          /\ picked # selected_heard
          /\ selected_heard' = picked
    /\ UNCHANGED <<msg_id_counter, mid_out, mid_prev, ack_enabled, last_message,
                   messages, logged, sent_count, sent_frame, last_sent, tpc>>
    /\ KeyLeaves

TuiNext ==
    ComposeMessage \/ SendQuickMessage \/ ToggleAck \/ RepeatLastMessage \/ MouseClick

SpecTui == TuiInit /\ [][TuiNext]_vars

-----------------------------------------------------------------------------
(* APRSTUI._process_incoming fed by the reader thread *)

\* the most packets put on the queue in one run
MaxQueue == 3

\* "K9-15" and "AB1CD-7"
HeardK9 == <<75, 57, 45, 49, 53>>

HeardAb == <<65, 66, 49, 67, 68, 45, 55>>

\* what the reader thread puts on the queue: an acknowledgement
\* ":N0CALL-7 :ack001", a message ":N0CALL-7 :Hi{001" that came over
\* "WIDE1-1*", a Mic-E report, a Mic-E report whose comment is not ASCII,
\* a packet without info, and ":N0CALL-7 ack001" which lacks the second colon
PacketSample ==
    {[dest |-> <<78, 48, 67, 65, 76, 76>>, source |-> HeardK9, path |-> <<>>,
      info |-> <<58, 78, 48, 67, 65, 76, 76, 45, 55, 32, 58, 97, 99, 107, 48, 48, 49>>],
     [dest |-> CfgTocall, source |-> HeardAb,
      path |-> << <<87, 73, 68, 69, 49, 45, 49, 42>> >>,
      info |-> <<58, 78, 48, 67, 65, 76, 76, 45, 55, 32, 58, 72, 105, 123, 48, 48, 49>>],
     [dest |-> <<84, 82, 81, 80, 55, 84>>, source |-> HeardK9, path |-> <<>>,
      info |-> <<39, 40, 99, 130, 108, 47, 60, 62, 47>>],
     [dest |-> <<84, 82, 81, 80, 55, 84>>, source |-> HeardAb, path |-> <<>>,
      info |-> <<39, 40, 99, 130, 108, 47, 60, 62, 47, 233>>],
     [dest |-> CfgTocall, source |-> HeardAb, path |-> <<>>, info |-> <<>>],
     [dest |-> CfgTocall, source |-> HeardK9, path |-> <<>>,
      info |-> <<58, 78, 48, 67, 65, 76, 76, 45, 55, 32, 97, 99, 107, 48, 48, 49>>]}

\* the branch taken for 'ack' at offset 10: continue stands before
\* _log_message
AckLog(log, entry) == log

\* info.startswith(b':'), len(payload) >= 13 and payload[10:13] == 'ack'
IsAck(info) ==
    /\ info # <<>> /\ info[1] = 58
    /\ Len(info) >= 13 /\ Slice(info, 10, 13) = <<97, 99, 107>>

\* the info shown: the text of decode_mic_e where it returns one
ShownInfo(dest, info) ==
    LET mic_decoded == decode_mic_e(dest, info) IN
    IF mic_decoded.st = "ok" THEN mic_decoded.text ELSE info

\* one turn of the while loop of _process_incoming
ProcessOne(pkt, ui) ==
    LET ack_entry == [src |-> pkt.source, dest |-> pkt.dest, info |-> pkt.info,
                      path |-> pkt.path]
        entry == [ack_entry EXCEPT !.info = ShownInfo(pkt.dest, pkt.info)]
    IN  IF IsAck(pkt.info)
        THEN [heard |-> ui.heard \cup {pkt.source},
              messages |-> Append(ui.messages, ack_entry),
              logged |-> AckLog(ui.logged, ack_entry),
              taken |-> Append(ui.taken, pkt)]
        ELSE [heard |-> ui.heard \cup {pkt.source},
              messages |-> Append(ui.messages, entry),
              logged |-> Append(ui.logged, entry),
              taken |-> Append(ui.taken, pkt)]

RECURSIVE Drain(_, _)
\* while not self.msg_queue.empty()
Drain(queue, ui) ==
    IF queue = <<>> THEN ui ELSE Drain(Tail(queue), ProcessOne(Head(queue), ui))

IncomingInit ==
    /\ KissIdle /\ AddrIdle /\ FrameIdle /\ MicIdle /\ ReaderIdle /\ UnframeIdle
    /\ AprsIdle /\ CloseIdle
    /\ TuiFresh
    /\ ack_enabled = TRUE
    /\ tpc = "incoming"

\* the reader thread: self.msg_queue.put
QueuePut ==
    /\ tpc = "incoming"
    /\ Len(taken) + Len(msg_queue) < MaxQueue
    /\ \E pkt \in PacketSample : msg_queue' = Append(msg_queue, pkt)
    /\ UNCHANGED <<tnc_sent, sock_rx, delivered, buffer, running>>
    /\ UNCHANGED <<kissVars, addrVars, frameVars, micVars, unframeVars, aprsVars,
                   tuiVars, closeVars>>

\* the UI thread: one call of _process_incoming
ProcessIncoming ==
    /\ tpc = "incoming"
    /\ msg_queue # <<>>
    /\ LET ui == Drain(msg_queue, [heard |-> heard, messages |-> messages,
                                   logged |-> logged, taken |-> taken])
       IN  /\ heard' = ui.heard
           /\ messages' = ui.messages
           /\ logged' = ui.logged
           /\ taken' = ui.taken
    /\ msg_queue' = <<>>
    /\ UNCHANGED <<tnc_sent, sock_rx, delivered, buffer, running>>
    /\ UNCHANGED <<kissVars, addrVars, frameVars, micVars, unframeVars, aprsVars,
                   closeVars>>
    /\ UNCHANGED <<msg_id_counter, mid_out, mid_prev, ack_enabled, last_message,
                   selected_heard, sent_count, sent_frame, last_sent, op_pre,
                   last_op, ops_done, tpc>>

IncomingNext == QueuePut \/ ProcessIncoming

SpecIncoming == IncomingInit /\ [][IncomingNext]_vars

-----------------------------------------------------------------------------
(* The reader thread of TNCConnection *)

RecvSize == 4096

MaxStreamFrames == 2

\* the tuple put on the queue; its fifth element is the wall clock at the
\* time of the put and is left out
Packet(d) == [dest |-> d.dest, source |-> d.source, path |-> d.path, info |-> d.info]

RECURSIVE PutFrames(_, _)
\* the for loop of _read_loop: the queue after it, and whether a decode
\* raised and ended the loop early
PutFrames(frames, queue) ==
    IF frames = <<>> THEN [queue |-> queue, raised |-> FALSE]
    ELSE LET d == decode_ax25_frame(Head(frames)) IN
         IF d.st = "raise" THEN [queue |-> queue, raised |-> TRUE]
         ELSE PutFrames(Tail(frames),
                        IF d.st = "ok" THEN Append(queue, Packet(d)) ELSE queue)

\* what a TNC sends: two UI frames, APZ001 from A-7 without info and APZ001
\* from K9-15 with an info byte that KISS escapes, and a frame too short to be
\* an AX.25 frame
SentFrames ==
    {encode_ax25_frame(<<65, 80, 90, 48, 48, 49>>, <<65, 45, 55>>, <<>>, <<>>),
     encode_ax25_frame(<<65, 80, 90, 48, 48, 49>>, <<75, 57, 45, 49, 53>>, <<>>, <<FEND>>),
     <<1>>}

WireFrames == {kiss_encode(f) : f \in SentFrames}

\* the byte stream of a sequence of sent frames: consecutive kiss_encode outputs
StreamOf(sent) == Concat([i \in 1..Len(sent) |-> kiss_encode(sent[i])])

StreamSample == {StreamOf(w) : w \in SeqsUpTo(SentFrames, MaxStreamFrames)}

ReaderInit ==
    /\ KissIdle /\ AddrIdle /\ FrameIdle /\ MicIdle /\ UnframeIdle /\ AprsIdle /\ TuiIdle /\ CloseIdle
    /\ tnc_sent \in SeqsUpTo(SentFrames, MaxStreamFrames)
    /\ sock_rx = StreamOf(tnc_sent)
    /\ delivered = <<>>
    /\ buffer = <<>>
    /\ msg_queue = <<>>
    /\ running = TRUE

\* one turn of the loop in which recv returns n bytes
Recv ==
    /\ running
    /\ sock_rx # <<>>
    /\ \E n \in 1..Min(Len(sock_rx), RecvSize) :
          LET data == Slice(sock_rx, 0, n)
              unframed == kiss_unframe(buffer \o data)
              put == PutFrames(unframed.frames, msg_queue)
          IN  /\ sock_rx' = SliceFrom(sock_rx, n)
              /\ delivered' = delivered \o data
              /\ buffer' = unframed.remainder
              /\ msg_queue' = put.queue
              /\ running' = ~put.raised
    /\ UNCHANGED <<tnc_sent, notReader>>

\* the TNC has closed the connection: recv returns b''
RecvClosed ==
    /\ running
    /\ sock_rx = <<>>
    /\ running' = FALSE
    /\ UNCHANGED <<tnc_sent, sock_rx, delivered, buffer, msg_queue, notReader>>

ReaderNext == Recv \/ RecvClosed

SpecReader == ReaderInit /\ [][ReaderNext]_vars

-----------------------------------------------------------------------------
(* TNCConnection.close() against the reader thread and send_frame *)

\* the most calls of send_frame in one run
MaxSendCalls == 2

\* what is left alone by the three threads of this part
notClose ==
    <<kissVars, addrVars, frameVars, micVars, unframeVars, aprsVars, tuiVars,
      tnc_sent, sock_rx, delivered, buffer, msg_queue>>

\* what sock.recv does: with self.sock None the attribute access fails, a
\* closed socket raises, a socket shut down returns b''; an open one returns
\* data that is handled or not, times out, reaches end of stream or fails
RecvOutcomes ==
    IF sock_attr = "none" THEN {"AttributeError"}
    ELSE IF sock_os = "closed" THEN {"OSError"}
    ELSE IF sock_os = "shutdown" THEN {"eof"}
    ELSE {"data", "Exception", "timeout", "eof", "OSError"}

\* what sock.sendall does
SendOutcomes ==
    IF sock_attr = "none" THEN {"AttributeError"}
    ELSE IF sock_os # "open" THEN {"OSError"}
    ELSE {"sent", "timeout"}

\* a handler for socket errors only in place of except Exception
ReaderCatchOsOnly(outcome) ==
    IF outcome = "timeout" THEN "continue"
    ELSE IF outcome = "OSError" THEN "stop"
    ELSE "escape"

\* except socket.timeout: continue; except Exception: running = False, break
ReaderCatch(outcome) == IF outcome = "timeout" THEN "continue" ELSE "stop"

\* except Exception: pass
SendCatch(outcome) == "pass"

\* connect() has returned True: the socket is open and the reader started
CloseInit ==
    /\ KissIdle /\ AddrIdle /\ FrameIdle /\ MicIdle /\ UnframeIdle /\ AprsIdle
    /\ TuiIdle
    /\ tnc_sent = <<>> /\ sock_rx = <<>> /\ delivered = <<>> /\ buffer = <<>>
    /\ msg_queue = <<>>
    /\ running = TRUE
    /\ sock_attr = "set" /\ sock_os = "open"
    /\ rpc = "test" /\ reader_exit = "none"
    /\ cpc = "idle" /\ spc = "idle"
    /\ send_calls = 0 /\ send_late = FALSE /\ tx_count = 0 /\ late_tx = FALSE
    /\ escaped = {}

\* while self.running and self.sock
ReaderTest ==
    /\ rpc = "test"
    /\ IF running /\ sock_attr = "set"
       THEN rpc' = "recv" /\ UNCHANGED reader_exit
       ELSE rpc' = "done" /\ reader_exit' = "test"
    /\ UNCHANGED <<running, sock_attr, sock_os, cpc, spc, send_calls, send_late,
                   tx_count, late_tx, escaped, notClose>>

\* the body of the loop: recv, the frames put on the queue, the handlers
ReaderRecv ==
    /\ rpc = "recv"
    /\ \E outcome \in RecvOutcomes :
          IF outcome = "data"
          THEN rpc' = "test" /\ UNCHANGED <<running, reader_exit, escaped>>
          ELSE IF outcome = "eof"
          THEN /\ running' = FALSE /\ rpc' = "done" /\ reader_exit' = "eof"
               /\ UNCHANGED escaped
          ELSE IF ReaderCatch(outcome) = "continue"
          THEN rpc' = "test" /\ UNCHANGED <<running, reader_exit, escaped>>
          ELSE IF ReaderCatch(outcome) = "stop"
          THEN /\ running' = FALSE /\ rpc' = "done" /\ reader_exit' = outcome
               /\ UNCHANGED escaped
          ELSE /\ rpc' = "dead" /\ reader_exit' = outcome
               /\ escaped' = escaped \cup {"reader"}
               /\ UNCHANGED running
    /\ UNCHANGED <<sock_attr, sock_os, cpc, spc, send_calls, send_late, tx_count,
                   late_tx, notClose>>

ReaderStep == ReaderTest \/ ReaderRecv

\* close(): self.running = False
CloseFlag ==
    /\ cpc = "idle"
    /\ running' = FALSE
    /\ cpc' = "test"
    /\ UNCHANGED <<sock_attr, sock_os, rpc, reader_exit, spc, send_calls,
                   send_late, tx_count, late_tx, escaped, notClose>>

\* if self.sock
CloseTest ==
    /\ cpc = "test"
    /\ cpc' = IF sock_attr = "set" THEN "shutdown" ELSE "join"
    /\ UNCHANGED <<running, sock_attr, sock_os, rpc, reader_exit, spc, send_calls,
                   send_late, tx_count, late_tx, escaped, notClose>>

\* self.sock.shutdown(socket.SHUT_RDWR), its errors passed over
CloseShutdown ==
    /\ cpc = "shutdown"
    /\ sock_os' \in (IF sock_os = "open" THEN {"shutdown", "open"} ELSE {sock_os})
    /\ cpc' = "sockclose"
    /\ UNCHANGED <<running, sock_attr, rpc, reader_exit, spc, send_calls,
                   send_late, tx_count, late_tx, escaped, notClose>>

\* self.sock.close()
CloseSocket ==
    /\ cpc = "sockclose"
    /\ sock_os' = "closed"
    /\ cpc' = "clear"
    /\ UNCHANGED <<running, sock_attr, rpc, reader_exit, spc, send_calls,
                   send_late, tx_count, late_tx, escaped, notClose>>

\* self.sock = None
CloseClear ==
    /\ cpc = "clear"
    /\ sock_attr' = "none"
    /\ cpc' = "join"
    /\ UNCHANGED <<running, sock_os, rpc, reader_exit, spc, send_calls, send_late,
                   tx_count, late_tx, escaped, notClose>>

\* self.reader_thread.join(timeout=1): the reader has ended or a second passed
CloseJoin ==
    /\ cpc = "join"
    /\ cpc' = "done"
    /\ UNCHANGED <<running, sock_attr, sock_os, rpc, reader_exit, spc, send_calls,
                   send_late, tx_count, late_tx, escaped, notClose>>

\* send_frame: if not self.sock: return; then kiss_encode
SendStart ==
    /\ spc = "idle"
    /\ send_calls < MaxSendCalls
    /\ send_calls' = send_calls + 1
    /\ send_late' = (cpc = "done")
    /\ spc' = IF sock_attr = "none" THEN "idle" ELSE "sendall"
    /\ UNCHANGED <<running, sock_attr, sock_os, rpc, reader_exit, cpc, tx_count,
                   late_tx, escaped, notClose>>

\* self.sock.sendall(kiss_data) in its try block
SendAll ==
    /\ spc = "sendall"
    /\ \E outcome \in SendOutcomes :
          IF outcome = "sent"
          THEN /\ tx_count' = tx_count + 1
               /\ late_tx' = (late_tx \/ send_late)
               /\ UNCHANGED escaped
          ELSE /\ escaped' = IF SendCatch(outcome) = "pass" THEN escaped
                             ELSE escaped \cup {"send_frame"}
               /\ UNCHANGED <<tx_count, late_tx>>
    /\ spc' = "idle"
    /\ UNCHANGED <<running, sock_attr, sock_os, rpc, reader_exit, cpc, send_calls,
                   send_late, notClose>>

CloseNext ==
    \/ ReaderTest \/ ReaderRecv
    \/ CloseFlag \/ CloseTest \/ CloseShutdown \/ CloseSocket \/ CloseClear \/ CloseJoin
    \/ SendStart \/ SendAll

\* the reader is a thread of its own and recv returns within its timeout
SpecClose == CloseInit /\ [][CloseNext]_vars /\ WF_vars(ReaderStep)

-----------------------------------------------------------------------------
\* C1: unframing the encoding of any frame f gives exactly the frame list
\* [f] and an empty remainder.
C1_RoundTrip ==
    kpc = "whole" => whole = [frames |-> <<ax25_frame>>, remainder |-> <<>>]

\* a frame holding both 0xC0 and 0xDB has been encoded and unframed
C1_Witness ==
    /\ kpc = "whole"
    /\ \E i, j \in 1..Len(ax25_frame) : ax25_frame[i] = FEND /\ ax25_frame[j] = FESC
    /\ whole.frames = <<ax25_frame>>

\* C2: unframing the two pieces of a split encoding, threading the
\* remainder, gives [f] in total and an empty remainder, as one call does.
C2_ChunkingInvariance ==
    kpc = "second" =>
        /\ first.frames \o second.frames = <<ax25_frame>>
        /\ second.remainder = <<>>

-----------------------------------------------------------------------------
(* The callsign format the claims speak of *)

IsCallChar(c) == IsDigit(c) \/ (65 <= c /\ c <= 90)

\* 1-6 uppercase letters or digits
IsCallsign(s) == Len(s) \in 1..6 /\ \A i \in 1..Len(s) : IsCallChar(s[i])

\* a callsign, alone or followed by '-' and the numeral of an SSID in lo..15
IsStation(s, lo) ==
    LET d == IndexOf(s, 45) IN
    IF d = 0 THEN IsCallsign(s)
    ELSE /\ IsCallsign(Slice(s, 0, d - 1))
         /\ \E n \in lo..15 : SliceFrom(s, d) = DecStr(n)

InputsAreStations(lo) ==
    /\ IsStation(in_dest, lo) /\ IsStation(in_source, lo)
    /\ \A i \in 1..Len(in_path) : IsStation(in_path[i], lo)

FrameInputs ==
    [st |-> "ok", dest |-> in_dest, source |-> in_source, path |-> in_path,
     info |-> in_info]

\* C4 as stated: with every address a callsign with an optional -SSID suffix,
\* SSID 0..15, decoding the encoded frame gives back exactly the inputs.
C4_RoundTripAnySsid ==
    (fpc = "done" /\ InputsAreStations(0)) => decoded = FrameInputs

\* C4, amended: decoding the encoded frame gives back exactly destination,
\* source, path and info when every -SSID suffix names an SSID in 1..15; no
\* path entry carries a '*'.
C4_RoundTrip ==
    (fpc = "done" /\ InputsAreStations(1)) =>
        /\ decoded = FrameInputs
        /\ \A i \in 1..Len(decoded.path) : decoded.path[i][Len(decoded.path[i])] # 42

\* a frame with SSID suffixes and the longest path went through both ways
C4_Witness ==
    /\ fpc = "done" /\ InputsAreStations(1)
    /\ IndexOf(in_dest, 45) # 0 /\ IndexOf(in_source, 45) # 0
    /\ Len(in_path) >= 8
    /\ decoded.st = "ok" /\ decoded.path = in_path

\* C5: for a callsign of 1-6 uppercase letters or digits, an SSID in 0..15
\* and either value of is_last, decoding the encoded address gives back
\* (call, ssid, is_last).
C5_AddressRoundTrip ==
    (apc = "decoded" /\ IsCallsign(call_in) /\ ssid_in \in 0..15) =>
        addr_decoded = [st |-> "ok", call |-> call_in, ssid |-> ssid_in,
                        last |-> last_in]

\* a six-character callsign with SSID 15 and is_last set was encoded and decoded
C5_Witness ==
    /\ apc = "decoded" /\ Len(call_in) = 6 /\ IsCallsign(call_in)
    /\ ssid_in = 15 /\ last_in
    /\ addr_decoded.st = "ok" /\ addr_decoded.last

\* some whole 7-byte group of f, counted from the start, has bit 0 of its
\* 7th byte set
HasTerminator(f) == \E n \in 1..(Len(f) \div 7) : f[7 * n] % 2 = 1

\* C6: a frame in which no 7-byte address group has its is_last bit set is
\* rejected, so a successful decode consumed an address list that ends in an
\* address with is_last set.
C6_UnterminatedFails ==
    (fpc \in {"done", "raw_done"} /\ decoded.st = "ok") => HasTerminator(raw_frame)

\* C8: for every byte sequence decode_ax25_frame returns a tuple or None: it
\* never raises and never indexes past the end of its input.
C8_NeverRaises ==
    fpc \in {"done", "raw_done"} =>
        /\ decoded.st \in {"ok", "none"}
        /\ decoded.st = "ok" => DOMAIN decoded = {"st", "dest", "source", "path", "info"}

\* the address loop ran to the end of an input of at least 16 bytes that is
\* no whole number of groups and holds no terminator, and None came back
C8_Witness ==
    /\ fpc = "raw_done" /\ Len(raw_frame) >= 16 /\ Len(raw_frame) % 7 # 0
    /\ ~HasTerminator(raw_frame)
    /\ decoded.st = "none"

AddressEnd(f) ==
    IF HasTerminator(f)
    THEN 7 * (CHOOSE n \in 1..(Len(f) \div 7) :
                 f[7 * n] % 2 = 1 /\ \A m \in 1..(n - 1) : f[7 * m] % 2 = 0)
    ELSE 7 * (Len(f) \div 7)

\* the two bytes after the address list are 0x03, 0xF0
IsUiTrailer(f) ==
    /\ AddressEnd(f) + 2 <= Len(f)
    /\ f[AddressEnd(f) + 1] = 3 /\ f[AddressEnd(f) + 2] = 240

\* C10: decode_ax25_frame fails whenever the two bytes after the terminating
\* address are not exactly 0x03, 0xF0 or fewer than two bytes follow it; on
\* success info is exactly the bytes after those two.
C10_ControlPid ==
    fpc \in {"done", "raw_done"} =>
        /\ (HasTerminator(raw_frame) /\ ~IsUiTrailer(raw_frame)) => decoded.st = "none"
        /\ decoded.st = "ok" =>
              /\ IsUiTrailer(raw_frame)
              /\ decoded.info = SliceFrom(raw_frame, AddressEnd(raw_frame) + 2)

\* a delivered frame with a terminated address list, 0x03 0xF0 and a
\* non-empty info field was decoded
C10_Witness ==
    /\ fpc = "raw_done" /\ HasTerminator(raw_frame) /\ IsUiTrailer(raw_frame)
    /\ decoded.st = "ok" /\ Len(decoded.info) > 0

\* C11: every successful decode comes from an input of at least 16 bytes whose
\* first address has is_last clear, so that a second address group was read;
\* an input shorter than 16 bytes, and an input whose first address has
\* is_last set, is rejected with None.
C11_TwoAddresses ==
    fpc \in {"done", "raw_done"} =>
        /\ decoded.st = "ok" =>
              /\ Len(raw_frame) >= 16
              /\ raw_frame[7] % 2 = 0
        /\ Len(raw_frame) < 16 => decoded.st = "none"
        /\ (Len(raw_frame) >= 7 /\ raw_frame[7] % 2 = 1) => decoded.st = "none"

\* 16 bytes, a destination with is_last set followed by 0x03 0xF0 and an
\* info field, were rejected
C11_Witness ==
    /\ fpc = "raw_done" /\ Len(raw_frame) = 16 /\ raw_frame[7] % 2 = 1
    /\ raw_frame[8] = 3 /\ raw_frame[9] = 240
    /\ decoded.st = "none"

\* C12: in an encoded frame exactly one address of the list destination,
\* source, path entries has its is_last bit set, and it is the final one: the
\* source when the path is empty, otherwise the last path entry.
C12_OneLastAddress ==
    fpc \in {"encoded", "done"} =>
        LET n == 2 + Len(in_path) IN
        /\ Len(raw_frame) >= 7 * n + 2
        /\ \A i \in 1..n : (raw_frame[7 * i] % 2 = 1) <=> (i = n)

\* a frame with a path of several digipeaters was encoded; the bit is on the
\* last of them and not on the source
C12_Witness ==
    /\ fpc = "encoded" /\ Len(in_path) >= 2
    /\ raw_frame[7 * (2 + Len(in_path))] % 2 = 1
    /\ raw_frame[14] % 2 = 0

\* what the claims say the two bytes FESC, next_b stand for
EscValue(esc) ==
    IF esc = <<>> THEN <<>>
    ELSE IF esc[2] = TFEND THEN <<FEND>>
    ELSE IF esc[2] = TFESC THEN <<FESC>>
    ELSE <<>>

\* the unescaped bytes between the two delimiters
SegContent == seg_type \o seg_pre \o EscValue(seg_esc) \o seg_post

\* C14: a completed frame is emitted only if the first unescaped byte between
\* its delimiters is 0x00, and then exactly the bytes after that byte are
\* emitted; any other first byte, and an empty delimited frame, emit nothing.
C14_TypeByte ==
    upc = "done" =>
        seg_out.frames = IF seg_closed /\ SegContent # <<>> /\ SegContent[1] = 0
                         THEN <<Tail(SegContent)>>
                         ELSE <<>>

\* a delimited frame of type 0x01 with data bytes was dropped
C14_Witness ==
    /\ upc = "done" /\ seg_closed /\ seg_type = <<1>> /\ Len(SegContent) >= 3
    /\ seg_out.frames = <<>>

\* C15: inside a frame FESC TFEND appends 0xC0, FESC TFESC appends 0xDB and
\* FESC with any other byte appends nothing; both bytes are consumed and the
\* bytes after them are read as usual.
C15_Escapes ==
    (upc = "done" /\ seg_closed /\ seg_type = <<0>> /\ seg_esc # <<>>) =>
        seg_out.frames =
            << seg_pre
               \o (IF seg_esc[2] = TFEND THEN <<192>>
                   ELSE IF seg_esc[2] = TFESC THEN <<219>>
                   ELSE <<>>)
               \o seg_post >>

\* FESC followed by a byte that is neither TFEND nor TFESC stood between data
\* bytes: both bytes left nothing in the frame, the bytes around them stayed
C15_Witness ==
    /\ upc = "done" /\ seg_closed /\ seg_type = <<0>>
    /\ seg_esc = <<FESC, 65>> /\ seg_pre # <<>> /\ seg_post # <<>>
    /\ seg_out.frames = <<seg_pre \o seg_post>>

\* C17: for every addressee, text and optional id the result is ':', the
\* uppercased addressee cut or space-padded to 9 characters, ':', the first 67
\* characters of the text and, iff an id is given, '{' and 3 digits: the
\* second ':' is at byte index 10 and the length is 11 + min(len(text), 67),
\* + 4 with an id.
C17_MessageLayout ==
    bpc = "msg_done" =>
        /\ msg_bytes.st = "ok"
        /\ LET b == msg_bytes.bytes
               t == Min(Len(msg_body), 67)
           IN  /\ Len(b) = 11 + t + (IF msg_num # <<>> THEN 4 ELSE 0)
               /\ b[1] = 58
               /\ \A i \in 1..9 :
                     b[1 + i] = IF i <= Len(msg_to) THEN Upper(msg_to[i]) ELSE 32
               /\ b[11] = 58
               /\ \A i \in 1..t : b[11 + i] = msg_body[i]
               /\ msg_num # <<>> =>
                     /\ b[12 + t] = 123
                     /\ \A k \in 1..3 : IsDigit(b[12 + t + k])

\* the call build_aprs_message("N0CALL", "hello", 5)
IsExampleMessage ==
    /\ msg_to = <<78, 48, 67, 65, 76, 76>>
    /\ msg_body = <<104, 101, 108, 108, 111>>
    /\ msg_num = <<5>>

\* C18 as stated: build_aprs_message("N0CALL", "hello", 5) is the bytes of
\* ":N0CALL  :hello{005", N0CALL followed by two spaces.
C18_ExampleTwoSpaces ==
    (bpc = "msg_done" /\ IsExampleMessage) =>
        msg_bytes = [st |-> "ok",
                     bytes |-> <<58, 78, 48, 67, 65, 76, 76, 32, 32, 58,
                                 104, 101, 108, 108, 111, 123, 48, 48, 53>>]

\* C18, amended: build_aprs_message("N0CALL", "hello", 5) is the 20 bytes of
\* ":N0CALL   :hello{005", N0CALL followed by three spaces, which fill the
\* addressee to 9 characters.
C18_ExampleThreeSpaces ==
    (bpc = "msg_done" /\ IsExampleMessage) =>
        msg_bytes = [st |-> "ok",
                     bytes |-> <<58, 78, 48, 67, 65, 76, 76, 32, 32, 32, 58,
                                 104, 101, 108, 108, 111, 123, 48, 48, 53>>]

\* the example call has returned 20 bytes
C18_Witness ==
    /\ bpc = "msg_done" /\ IsExampleMessage
    /\ msg_bytes.st = "ok" /\ Len(msg_bytes.bytes) = 20

\* every character that reaches the payload is ASCII
BodyIsAscii == \A i \in 1..Min(Len(msg_body), 67) : msg_body[i] < 128

\* C19: for every integer id the payload ends in '{' and exactly three
\* decimal digits whose value is the id modulo 1000: 000 for id 1000, 005
\* for id 5.
C19_IdSuffix ==
    (bpc = "msg_done" /\ msg_num # <<>> /\ BodyIsAscii) =>
        /\ msg_bytes.st = "ok"
        /\ LET b == msg_bytes.bytes
               n == Len(msg_bytes.bytes)
           IN  /\ n = 15 + Min(Len(msg_body), 67)
               /\ b[n - 3] = 123
               /\ \A k \in 0..2 : IsDigit(b[n - k])
               /\ (b[n - 2] - 48) * 100 + (b[n - 1] - 48) * 10 + (b[n] - 48)
                      = msg_num[1] % 1000
               /\ msg_num = <<1000>> => SubSeq(b, n - 2, n) = <<48, 48, 48>>
               /\ msg_num = <<5>> => SubSeq(b, n - 2, n) = <<48, 48, 53>>

\* a negative id was given and the payload ends in {999
C19_Witness ==
    /\ bpc = "msg_done" /\ msg_num = <<0 - 1>> /\ msg_bytes.st = "ok"
    /\ SubSeq(msg_bytes.bytes, Len(msg_bytes.bytes) - 3, Len(msg_bytes.bytes))
           = <<123, 57, 57, 57>>

\* the coordinate lies on a whole hundredth of a minute
IsWholeHundredth(v) == v % Grid = 0

\* the digit character of n
Digit(n) == 48 + n

\* the fields the claim gives one coordinate v: degrees in width digits, two
\* digits of minutes, '.', two digits of hundredths, and the letter
CoordField(v, width, pos_dir, neg_dir) ==
    LET d == Abs(v) \div UnitsPerDegree
        h == (Abs(v) % UnitsPerDegree) \div Grid
    IN  (IF width = 3 THEN <<Digit(d \div 100)>> ELSE <<>>)
        \o <<Digit((d \div 10) % 10), Digit(d % 10),
             Digit(h \div 1000), Digit((h \div 100) % 10), 46,
             Digit((h \div 10) % 10), Digit(h % 10),
             IF v >= 0 THEN pos_dir ELSE neg_dir>>

\* C20: for latitude and longitude on whole hundredths of a minute, |lat| < 90
\* and |lon| < 180, the result is '!', the latitude as DDMM.hh and N or S,
\* symbol_table, the longitude as DDDMM.hh and E or W, symbol_code and the
\* comment; (45.5, 9.25, '/', '>', '') gives !4530.00N/00915.00E>.
C20_PositionLayout ==
    (/\ bpc = "pos_done"
     /\ IsWholeHundredth(pos_lat) /\ Abs(pos_lat) < 90 * UnitsPerDegree
     /\ IsWholeHundredth(pos_lon) /\ Abs(pos_lon) < 180 * UnitsPerDegree) =>
        /\ pos_bytes =
              [st |-> "ok",
               bytes |-> <<33>> \o CoordField(pos_lat, 2, 78, 83) \o pos_table
                         \o CoordField(pos_lon, 3, 69, 87) \o pos_code \o pos_note]
        /\ (/\ pos_lat = DegMin(45, 30, 0) /\ pos_lon = DegMin(9, 15, 0)
            /\ pos_table = <<47>> /\ pos_code = <<62>> /\ pos_note = <<>>) =>
              pos_bytes.bytes = <<33, 52, 53, 51, 48, 46, 48, 48, 78, 47,
                                  48, 48, 57, 49, 53, 46, 48, 48, 69, 62>>

\* a southern and western position with a comment was built
C20_Witness ==
    /\ bpc = "pos_done"
    /\ pos_lat = 0 - DegMin(7, 5, 7) /\ pos_lon = 0 - DegMin(122, 25, 10)
    /\ pos_note # <<>>
    /\ pos_bytes.st = "ok"
    /\ pos_bytes.bytes[9] = 83 /\ pos_bytes.bytes[19] = 87

\* C3: however the byte stream is cut into recv chunks, the packets on the
\* queue once the stream has arrived are those of the whole stream arriving
\* in one chunk.
C3_ChunkingEquivalence ==
    sock_rx = <<>> =>
        msg_queue = PutFrames(kiss_unframe(delivered).frames, <<>>).queue

\* the packets of the well-formed frames among sent, in the order sent
DecodablePackets(sent) ==
    LET good == SelectSeq(sent, LAMBDA f : decode_ax25_frame(f).st = "ok")
    IN  [i \in 1..Len(good) |-> Packet(decode_ax25_frame(good[i]))]

\* C13: when the stream of consecutive kiss_encode outputs holds a frame that
\* fails decode_ax25_frame, that frame enqueues nothing and the loop goes on:
\* it keeps running while bytes are pending, and once the stream has arrived
\* the queue holds the packets of all well-formed frames, in stream order.
C13_BadFrameSkipped ==
    (\E i \in 1..Len(tnc_sent) : decode_ax25_frame(tnc_sent[i]).st # "ok") =>
        /\ sock_rx # <<>> => running
        /\ sock_rx = <<>> => msg_queue = DecodablePackets(tnc_sent)

\* C7: for every destination and every info bytes decode_mic_e returns a
\* position string or None; nothing is raised.
C7_MicENeverRaises ==
    mpc = "done" => mic_result.st \in {"ok", "none"}

-----------------------------------------------------------------------------
\* the destination with its '-SSID' suffix stripped
StrippedDest ==
    IF IndexOf(mic_dest, 45) = 0 THEN mic_dest
    ELSE SubSeq(mic_dest, 1, IndexOf(mic_dest, 45) - 1)

\* C21: decode_mic_e returns None when info is empty, when info[0] is neither
\* 0x27 nor 0x60, when info has fewer than 9 bytes and when the destination
\* without its SSID suffix has fewer than 6 characters; of a longer
\* destination only the first 6 characters influence the result.
C21_Preconditions ==
    mpc = "done" =>
        /\ (\/ mic_info = <<>>
            \/ mic_info[1] \notin {39, 96}
            \/ Len(mic_info) < 9
            \/ Len(StrippedDest) < 6) => mic_result = NoneResult
        /\ Len(StrippedDest) > 6 =>
              mic_result = decode_mic_e(SubSeq(StrippedDest, 1, 6), mic_info)

\* a destination whose seventh character is outside the Mic-E table was
\* decoded to a position
C21_Witness ==
    /\ mpc = "done" /\ Len(StrippedDest) = 7 /\ StrippedDest[7] = 77
    /\ mic_result.st = "ok"

\* 0-9, A-L or P-Z
InMicETable(c) == IsDigit(c) \/ (65 <= c /\ c <= 76) \/ (80 <= c /\ c <= 90)

\* C22: decode_mic_e returns None whenever one of the first six uppercased
\* destination characters is outside 0-9, A-L and P-Z, at whichever of the
\* six indices it stands.
C22_BadCharacter ==
    (/\ mpc = "done" /\ Len(StrippedDest) >= 6
     /\ \E i \in 1..6 : ~InMicETable(Upper(StrippedDest[i]))) =>
        mic_result = NoneResult

\* a well-formed info field came with a destination whose last character
\* alone, an 'O', is outside the table, and None was returned
C22_Witness ==
    /\ mpc = "done" /\ Len(mic_info) >= 9 /\ mic_info[1] = 39
    /\ Len(StrippedDest) = 6 /\ StrippedDest[6] = 79
    /\ \A i \in 1..5 : InMicETable(StrippedDest[i])
    /\ mic_result = NoneResult

\* the index of the first character of t after index lo that is in S
FirstIn(t, S, lo) ==
    CHOOSE i \in (lo + 1)..Len(t) : t[i] \in S /\ \A j \in (lo + 1)..(i - 1) : t[j] \notin S

\* where the latitude letter stands in a position string: the first N or S,
\* which only '!', digits and '.' precede
LatLetterAt(t) == FirstIn(t, {78, 83}, 0)

\* where the longitude letter stands: the first E or W after the symbol
\* table character that follows the latitude letter
LonLetterAt(t) == FirstIn(t, {69, 87}, LatLetterAt(t) + 1)

\* the character of the stripped, uppercased destination at index i, from 0
DestCharAt(i) == Upper(StrippedDest[i + 1])

\* C23: in every returned string the latitude letter is 'S' exactly when the
\* destination character at index 3 is in 0-9 or A-L and 'N' exactly when it
\* is in P-Z, whatever the six latitude digits are, all zero included.
C23_LatitudeLetter ==
    (mpc = "done" /\ mic_result.st = "ok") =>
        mic_result.text[LatLetterAt(mic_result.text)]
            = IF 80 <= DestCharAt(3) /\ DestCharAt(3) <= 90 THEN 78 ELSE 83

\* C24: in every returned string the longitude letter is 'W' exactly when the
\* destination character at index 5 is in P-Z and 'E' exactly when it is in
\* 0-9 or A-L, for every value of info[1..3], those giving zero or negative
\* degrees included.
C24_LongitudeLetter ==
    (mpc = "done" /\ mic_result.st = "ok") =>
        mic_result.text[LonLetterAt(mic_result.text)]
            = IF 80 <= DestCharAt(5) /\ DestCharAt(5) <= 90 THEN 87 ELSE 69

\* the digit the claim's table gives a destination character
TableDigit(c) ==
    IF IsDigit(c) THEN c - 48
    ELSE IF 65 <= c /\ c <= 74 THEN c - 65
    ELSE IF 80 <= c /\ c <= 89 THEN c - 80
    ELSE 0

\* C25: for every accepted destination the latitude magnitude is DD degrees
\* and MM.HH minutes, the six digits read from the table 0-9 -> itself,
\* A-J -> 0-9, P-Y -> 0-9 and K, L, Z -> 0.
C25_LatitudeValue ==
    (mpc = "done" /\ mic_locals # NoneResult) =>
        Abs(mic_locals.lat_val)
            = ((10 * TableDigit(DestCharAt(0)) + TableDigit(DestCharAt(1))) * 6000
               + (10 * TableDigit(DestCharAt(2)) + TableDigit(DestCharAt(3))) * 100
               + (10 * TableDigit(DestCharAt(4)) + TableDigit(DestCharAt(5)))) * Grid

\* "JY9Y5L" was decoded: digits from A-J, from P-Y and an ambiguous one
C25_Witness ==
    /\ mpc = "done" /\ mic_dest = <<74, 89, 57, 89, 53, 76>>
    /\ mic_locals # NoneResult
    /\ Abs(mic_locals.lat_val) = DegMin(99, 99, 50)

\* C26: longitude degrees are info[1] - 28, plus 100 exactly when the
\* destination character at index 4 is in P-Z; minutes are info[2] - 28 less
\* 60 when that is 60 or more; hundredths are info[3] - 28 less 100 when that
\* is 100 or more; for bytes in 28..127 the minutes are in 0..59 and the
\* hundredths in 0..99.
C26_LongitudeFields ==
    (mpc = "done" /\ mic_locals # NoneResult) =>
        LET d == mic_info[2] - 28
            m == mic_info[3] - 28
            h == mic_info[4] - 28
        IN  /\ mic_locals.lon_deg
                  = d + (IF 80 <= DestCharAt(4) /\ DestCharAt(4) <= 90 THEN 100 ELSE 0)
            /\ mic_locals.lon_min = IF m >= 60 THEN m - 60 ELSE m
            /\ mic_locals.lon_hun = IF h >= 100 THEN h - 100 ELSE h
            /\ mic_info[3] \in 28..127 => mic_locals.lon_min \in 0..59
            /\ mic_info[4] \in 28..127 => mic_locals.lon_hun \in 0..99

\* a minutes byte of 60 + 28 or more was decoded with a destination whose
\* character at index 4 adds 100 degrees
C26_Witness ==
    /\ mpc = "done" /\ mic_locals # NoneResult
    /\ mic_info[3] \in 88..127 /\ mic_locals.lon_min = mic_info[3] - 88
    /\ mic_locals.lon_deg = mic_info[2] + 72

\* C27: the speed in knots is (info[4] - 28) * 10 + floor((info[5] - 28) / 10),
\* less 800 when that is 800 or more; for info[4] and info[5] in 28..127 it is
\* in 0..799.
C27_Speed ==
    (mpc = "done" /\ mic_locals # NoneResult) =>
        LET raw == (mic_info[5] - 28) * 10 + ((mic_info[6] - 28) \div 10)
        IN  /\ mic_locals.speed_knots = IF raw >= 800 THEN raw - 800 ELSE raw
            /\ (mic_info[5] \in 28..127 /\ mic_info[6] \in 28..127) =>
                  mic_locals.speed_knots \in 0..799

\* speed bytes that give 800 knots or more before the reduction were decoded
C27_Witness ==
    /\ mpc = "done" /\ mic_locals # NoneResult
    /\ mic_info[5] \in 108..127 /\ mic_info[6] \in 28..127
    /\ mic_locals.speed_knots = (mic_info[5] - 108) * 10 + ((mic_info[6] - 28) \div 10)

\* C28: the remainder is empty when the scan ended outside a frame, and when
\* it ended inside an unterminated frame it is exactly the bytes accumulated
\* for that frame: the type byte first, escapes resolved.
C28_Remainder ==
    upc = "done" =>
        seg_out.remainder = IF seg_closed THEN <<>> ELSE SegContent

\* the scan ended inside a data frame that held an escaped FEND
C28_Witness ==
    /\ upc = "done" /\ ~seg_closed /\ seg_type = <<0>> /\ seg_esc = <<FESC, TFEND>>
    /\ seg_out.remainder = <<0>> \o seg_pre \o <<192>> \o seg_post
    /\ seg_out.frames = <<>>

\* C29: bytes scanned while no frame is open, before the opening FEND or after
\* the closing one, appear in no emitted frame and not in the remainder, and
\* raise nothing: frames and remainder are those of the frame alone.
C29_StrayBytes ==
    (upc = "done" /\ (seg_stray # <<>> \/ seg_tail # <<>>)) =>
        seg_out = [frames |-> IF seg_closed /\ seg_type = <<0>>
                              THEN <<seg_pre \o EscValue(seg_esc) \o seg_post>>
                              ELSE IF seg_closed /\ SegContent # <<>> /\ SegContent[1] = 0
                              THEN <<Tail(SegContent)>>
                              ELSE <<>>,
                   remainder |-> IF seg_closed THEN <<>> ELSE SegContent]

\* a data frame stood between stray bytes and was emitted without them
C29_Witness ==
    /\ upc = "done" /\ seg_stray # <<>> /\ seg_tail # <<>> /\ seg_type = <<0>>
    /\ seg_out = [frames |-> <<seg_pre \o EscValue(seg_esc) \o seg_post>>,
                  remainder |-> <<>>]

\* C30: kiss_unframe applied to kiss_encode(f1), k extra FEND bytes and
\* kiss_encode(f2) emits exactly the frames f1 and f2, for every k >= 0.
C30_IdleDelimiters ==
    kpc = "pair" => pair_out.frames = <<ax25_frame, pair_second>>

\* the positions of a sequence holding the byte b
PositionsOf(s, b) == {i \in 1..Len(s) : s[i] = b}

\* C31: the output of kiss_encode holds 0xC0 exactly twice, as its first and
\* last byte, its second byte is 0x00, every 0xDB in between is followed at
\* once by 0xDC or 0xDD, and its length is len(input) + 3 + the number of
\* 0xC0 and 0xDB bytes of the input.
C31_EncodedShape ==
    kpc # "start" =>
        /\ PositionsOf(kiss_data, 192) = {1, Len(kiss_data)}
        /\ Len(kiss_data) >= 3
        /\ kiss_data[2] = 0
        /\ \A i \in PositionsOf(kiss_data, 219) :
              /\ i < Len(kiss_data)
              /\ kiss_data[i + 1] \in {220, 221}
        /\ Len(kiss_data) = Len(ax25_frame) + 3
                              + Cardinality(PositionsOf(ax25_frame, 192))
                              + Cardinality(PositionsOf(ax25_frame, 219))

\* a frame holding both special bytes has been encoded
C31_Witness ==
    /\ kpc = "encoded"
    /\ PositionsOf(ax25_frame, 192) # {} /\ PositionsOf(ax25_frame, 219) # {}
    /\ Len(ax25_frame) = 3
    /\ Len(kiss_data) >= 8

\* seven bytes, the first six with bit 0 clear, the 7th with bits 5 and 6 set,
\* bit 7 clear, the SSID modulo 16 in bits 1-4 and is_last in bit 0
AddressShape(a, ssid, is_last) ==
    /\ Len(a) = 7
    /\ \A i \in 1..6 : a[i] \in 0..255 /\ a[i] % 2 = 0
    /\ a[7] \in 0..255
    /\ (a[7] \div 32) % 4 = 3
    /\ (a[7] \div 128) % 2 = 0
    /\ (a[7] \div 2) % 16 = ssid % 16
    /\ (a[7] % 2 = 1) <=> is_last

\* the stations of an encoded frame in header order
FrameStations == <<in_dest, in_source>> \o in_path

\* C32: every address from encode_ax25_address, alone or in a frame from
\* encode_ax25_frame, is 7 bytes, the first six with bit 0 clear, the 7th with
\* bits 5 and 6 set, bit 7 clear, bits 1-4 the SSID modulo 16 and bit 0
\* is_last, for any callsign length and any integer SSID.
C32_AddressShape ==
    /\ apc \in {"encoded", "decoded"} => AddressShape(addr_in, ssid_in, last_in)
    /\ fpc \in {"encoded", "done"} =>
          /\ Len(raw_frame) = 7 * Len(FrameStations) + 2 + Len(in_info)
          /\ \A n \in 1..Len(FrameStations) :
                AddressShape(SubSeq(raw_frame, 7 * n - 6, 7 * n),
                             split_call(FrameStations[n]).ssid,
                             n = Len(FrameStations))

\* a seven-letter callsign with SSID 16 has been encoded as the last address
C32_Witness ==
    /\ apc = "encoded" /\ Len(call_in) = 7 /\ ssid_in = 16 /\ last_in
    /\ addr_in[7] = 97

\* the n-th address field of the frame handed to decode_ax25_frame
AddrField(n) == SubSeq(raw_frame, 7 * n - 6, 7 * n)

\* 'CALL' when the SSID is 0 and 'CALL-SSID' otherwise
Rendered(a) ==
    LET ssid == (a[7] \div 2) % 16 IN
    IF ssid = 0 THEN DecodeCall(a) ELSE DecodeCall(a) \o <<45>> \o DecStr(ssid)

\* the frame with the has-been-repeated bit of its n-th address inverted
FlipH(f, n) == [f EXCEPT ![7 * n] = (@ + 128) % 256]

C34_MessageIds ==
    /\ msg_id_counter \in 1..999
    /\ mid_out # <<>> => mid_out[1] \in 1..999
    /\ (mid_out # <<>> /\ mid_prev = <<>>) => mid_out[1] = 1
    /\ mid_prev # <<>> =>
          mid_out[1] = IF mid_prev[1] = 999 THEN 1 ELSE mid_prev[1] + 1

\* the call after the one that returned 999 has returned 1
C34_Witness ==
    tpc = "ids" /\ mid_prev = <<999>> /\ mid_out = <<1>> /\ msg_id_counter = 2

\* the information field of the frame handed to tnc.send_frame
SentInfo == decode_ax25_frame(sent_frame).info

\* ':' + the addressee in nine columns + ':'
AddresseeField(dest) == <<58>> \o Ljust(Slice(UpperStr(dest), 0, 9), 9) \o <<58>>

\* '{' and the id in three digits, nothing without an id
IdField(msg_id) == IF msg_id = <<>> THEN <<>> ELSE <<123>> \o ZeroPad(msg_id[1], 3)

\* C35: repeat_last_message does nothing when no message has been sent yet;
\* otherwise it sends one frame with the addressee and text of the last sent
\* message and, with acknowledgements enabled, its message id; it leaves
\* msg_id_counter and last_message as they were.
C35_RepeatLast ==
    last_op = "repeat" =>
        /\ tpc = "run"
        /\ msg_id_counter = op_pre.counter
        /\ last_message = op_pre.last_message
        /\ IF last_sent.st = "none"
           THEN /\ sent_count = op_pre.sent_count
                /\ sent_frame = op_pre.sent_frame
           ELSE /\ sent_count = op_pre.sent_count + 1
                /\ SubSeq(SentInfo, 1, 11) = AddresseeField(last_sent.dest)
                /\ SubSeq(SentInfo, 12, 11 + Len(last_sent.text)) = last_sent.text
                /\ ack_enabled =>
                      SentInfo = AddresseeField(last_sent.dest) \o last_sent.text
                                    \o IdField(last_sent.msg_id)

\* a message sent with id 1 to the selected station was followed by another
\* key and then repeated with the same id
C35_Witness ==
    /\ last_op = "repeat" /\ ack_enabled /\ ops_done >= 3
    /\ last_sent.st = "set" /\ last_sent.msg_id = <<1>>
    /\ SentInfo = AddresseeField(last_sent.dest) \o last_sent.text \o <<123, 48, 48, 49>>
    /\ msg_id_counter = 2
    /\ sent_count = 2

\* the entry of a packet as the reader thread delivered it
AsDelivered(pkt) ==
    [src |-> pkt.source, dest |-> pkt.dest, info |-> pkt.info, path |-> pkt.path]

\* the same packet, whatever was done to its info
SamePacket(entry, pkt) ==
    entry.src = pkt.source /\ entry.dest = pkt.dest /\ entry.path = pkt.path

\* C37: every packet _process_incoming takes from the queue is appended once
\* to the displayed list, in queue order, its source is in the heard set, and
\* it is passed to _log_message; acknowledgement packets as all others.
C37_ShownAndLogged ==
    tpc = "incoming" =>
        /\ Len(messages) = Len(taken)
        /\ \A i \in 1..Len(taken) :
              /\ SamePacket(messages[i], taken[i])
              /\ taken[i].source \in heard
        /\ logged = messages

\* C36: once close() is called, wherever it interleaves with the reader loop
\* and with send_frame, the reader thread eventually leaves its loop with
\* running False, no exception leaves the reader thread or send_frame, and a
\* send_frame begun after close() returned transmits nothing.
C36_CloseStopsReader ==
    /\ [](escaped = {} /\ ~late_tx)
    /\ (cpc # "idle") ~> (rpc = "done" /\ ~running)

\* close() set self.sock to None between the loop test and recv, the reader
\* left on the AttributeError, and a send_frame came after close() returned
C36_Witness ==
    /\ cpc = "done" /\ rpc = "done" /\ ~running
    /\ reader_exit = "AttributeError"
    /\ send_calls = 2 /\ send_late /\ tx_count = 1 /\ spc = "idle"

\* C38: for info[5] and info[6] in 28..127 the course,
\* ((info[5] - 28) mod 10) * 100 + (info[6] - 28) less 400 when that is 400 or
\* more, is in 0..399.
C38_Course ==
    (mpc = "done" /\ mic_locals # NoneResult) =>
        LET raw == ((mic_info[6] - 28) % 10) * 100 + (mic_info[7] - 28)
        IN  /\ mic_locals.course_deg = IF raw >= 400 THEN raw - 400 ELSE raw
            /\ (mic_info[6] \in 28..127 /\ mic_info[7] \in 28..127) =>
                  mic_locals.course_deg \in 0..399

\* five characters MM.hh that read 00.00 to 59.99
IsMinutesField(f) ==
    /\ Len(f) = 5 /\ f[3] = 46
    /\ \A i \in {1, 2, 4, 5} : IsDigit(f[i])
    /\ (f[1] - 48) * 10 + (f[2] - 48) <= 59

\* C39: for |lat| < 90 and |lon| < 180 on a grid finer than a hundredth of a
\* minute, the minutes build_aprs_position writes are within 00.00..59.99, the
\* latitude field has 8 characters and the longitude field 9: the rounding
\* never gives 60.00.
C39_MinutesBelowSixty ==
    (/\ bpc = "pos_done" /\ pos_bytes.st = "ok"
     /\ Abs(pos_lat) < 90 * UnitsPerDegree
     /\ Abs(pos_lon) < 180 * UnitsPerDegree) =>
        /\ Len(pos_bytes.bytes) = 1 + 8 + Len(pos_table) + 9 + Len(pos_code)
                                     + Len(pos_note)
        /\ pos_bytes.bytes[9] \in {78, 83}
        /\ pos_bytes.bytes[9 + Len(pos_table) + 9] \in {69, 87}
        /\ IsMinutesField(SubSeq(pos_bytes.bytes, 4, 8))
        /\ IsMinutesField(SubSeq(pos_bytes.bytes, 9 + Len(pos_table) + 4,
                                 9 + Len(pos_table) + 8))

=============================================================================
